---- MODULE Spec2Model ----
(***************************************************************************)
(* Model of the game-infra controller's orchestration engine:             *)
(* ControllerService (Start / Stop / Switch / Backup / Command), the      *)
(* in-memory StateStore and the two registered adapters (minecraft: real, *)
(* hytale: stub).  Each request is a process that blocks on opMu and then  *)
(* executes its handler; every adapter call is one step of the handler.    *)
(* Strings that the code trims (data URLs, backup references) are          *)
(* sequences of one-character strings.                                     *)
(* The second part models awsruntime.Client.WaitServiceStable with its     *)
(* deadline context, its ticker and the describe calls it issues; time is  *)
(* counted in seconds since the call.                                      *)
(***************************************************************************)
EXTENDS Integers, Sequences, FiniteSets, TLC

\* ------------------------------------------------------------------ bounds
NumProcs == 2
MaxOps == 3
\* number of calls in the runs checked for liveness
MaxLiveOps == 2
\* largest positive timeout (seconds) passed to WaitServiceStable
MaxTimeout == 6
\* number of adapter method calls and server writes in a run
MaxCalls == 3
\* number of steps of the state store and its callers in a run
MaxStoreOps == 4

Procs == 1..NumProcs

\* ------------------------------------------------------- program constants
GameMinecraft == "minecraft"
GameHytale == "hytale"
NoGame == ""
EmptyStr == <<>>

\* keys of the adapter registry built in main()
Games == {GameMinecraft, GameHytale}
\* a name that is not in the registry
UnknownGame == "terraria"
GameNames == Games \cup {UnknownGame}

\* GameAdapter.Type() of the adapter registered under key g
Type(g) == g

\* adapters whose methods have failing return paths (the hytale stub always
\* returns nil)
Fallible == {GameMinecraft}
\* adapters implementing latestBackupProvider
Providers == {GameMinecraft}

ErrUnknownGameType == "unknown game type"
ErrNoActiveGame == "no active game"
ErrNoBackupForGame == "no backup available for game"

\* ------------------------------------------------------------ input values
\* data URLs a caller may pass to Start
Locators == {<<>>, <<" ">>, <<"u">>, <<" ", "u">>}
\* references a successful Backup may return (time-stamped, never blank)
BackupRefs == {<<"a">>, <<"b">>}
\* reference a successful marker lookup in LatestBackup may yield
MarkerRefs == {<<"m">>}

\* ----------------------------------------------------------- strings.TrimSpace
IsSpace(c) == c = " "

RECURSIVE TrimLeft(_)
TrimLeft(s) ==
  IF s = <<>> THEN <<>>
  ELSE IF IsSpace(Head(s)) THEN TrimLeft(Tail(s)) ELSE s

RECURSIVE TrimRight(_)
TrimRight(s) ==
  IF s = <<>> THEN <<>>
  ELSE IF IsSpace(s[Len(s)]) THEN TrimRight(SubSeq(s, 1, Len(s) - 1)) ELSE s

TrimSpace(s) == TrimRight(TrimLeft(s))

\* ------------------------------------------------------------- Go string maps
EmptyMap == [k \in {} |-> EmptyStr]
\* m[k] with Go's zero value for a missing key
Lookup(m, k) == IF k \in DOMAIN m THEN m[k] ELSE EmptyStr
HasKey(m, k) == k \in DOMAIN m
MapSet(m, k, v) == [x \in (DOMAIN m) \cup {k} |-> IF x = k THEN v ELSE m[x]]

VARIABLES
  store,      \* memoryState.s
  opMu,       \* ControllerService.opMu: 0 when free, else the holder
  adapters,   \* per registered adapter: running, lastBackup
  pc,         \* position of each request in its handler
  op,         \* the call a request is making: name, game, dataURL
  st,         \* the handler's local State (result of state.Get)
  backupKey,  \* the handler's local backupKey
  call,       \* the call that most recently took the lock, and its caller
  trace,      \* the adapter calls that call has made, in order
  result,     \* what that call returned, once it has
  snap,       \* the stored record at the time that call read it
  status,     \* what the most recent Status call returned
  ops,        \* number of calls invoked so far
  wpc,        \* WaitServiceStable: position of the call
  now,        \* seconds elapsed since WaitServiceStable was called
  deadline,   \* the timeout of deadlineCtx, in seconds
  tick,       \* number of ticks waiting in ticker.C (capacity 1)
  ctxErr,     \* deadlineCtx.Err()
  last,       \* what the most recent DescribeService call returned
  stableSeen, \* some DescribeService call returned a stable service
  wres,       \* what WaitServiceStable returned
  fs,         \* the file system: what each existing path holds
  s3,         \* the objects of the store, by bucket and key
  cfg,        \* minecraft.Adapter: bucket, gitToken, and the process's privilege
  mc,         \* minecraft.Adapter: lastBackup, lastSource, aws (client cached)
  apc,        \* position of the adapter method being executed
  acall,      \* the adapter method called most recently and its argument
  ares,       \* what that method returned, once it has
  tmp,        \* the locals of that method
  pre,        \* the file system when that method was called
  net,        \* the requests that method has sent to the store
  saved,      \* the reference and the tree of the latest successful Backup
  acalls,     \* number of adapter calls and server writes so far
  heap,       \* the maps allocated so far, by address
  mstate,     \* memoryState.s, its maps given by address
  held,       \* the State value each caller of the store holds
  mclock,     \* the store's clock (time.Now)
  written,    \* the contents of the record as of the latest Set
  mops        \* number of steps of the store and its callers so far

ctlVars ==
  <<store, opMu, adapters, pc, op, st, backupKey, call, trace, result, snap,
    status, ops>>
waitVars == <<wpc, now, deadline, tick, ctxErr, last, stableSeen, wres>>
mcVars == <<fs, s3, cfg, mc, apc, acall, ares, tmp, pre, net, saved, acalls>>
memVars == <<heap, mstate, held, mclock, written, mops>>
vars == <<ctlVars, waitVars, mcVars, memVars>>

\* --------------------------------------------------------------- state store
NewMemoryState ==
  [ActiveGame |-> NoGame, Phase |-> "stopped", LastBackups |-> EmptyMap,
   SourceByGame |-> EmptyMap, UpdatedAt |-> 0]

cloneState(s) ==
  [s EXCEPT !.LastBackups = [k \in DOMAIN s.LastBackups |-> s.LastBackups[k]],
            !.SourceByGame = [k \in DOMAIN s.SourceByGame |-> s.SourceByGame[k]]]

\* memoryState.Get
Get == cloneState(store)

\* memoryState.Set: the value stored for s; updated_at comes from the store's
\* clock (a logical clock that advances on every write)
Set(s) == cloneState([s EXCEPT !.UpdatedAt = store.UpdatedAt + 1])

\* the maps of a record read from the store are never nil
ensureStateMaps(s) == s

\* ------------------------------------------------------------------ adapters
NewAdapter == [running |-> FALSE, lastBackup |-> EmptyStr]

\* possible success flags of a call on adapter g
Outcomes(g) == IF g \in Fallible THEN {TRUE, FALSE} ELSE {TRUE}
\* SendCommand only logs and returns nil in both adapters
SendCommandOutcomes(g) == {TRUE}

AdapterStart(a, g, ok) == IF ok THEN [a EXCEPT ![g].running = TRUE] ELSE a
AdapterStop(a, g, ok) == IF ok THEN [a EXCEPT ![g].running = FALSE] ELSE a
AdapterBackup(a, g, ok, ref) == IF ok THEN [a EXCEPT ![g].lastBackup = ref] ELSE a
\* every reference the controller passes is fully qualified, so the
\* normalised reference the real adapter records is the reference itself
AdapterRestore(a, g, ok, ref) == IF ok THEN [a EXCEPT ![g].lastBackup = ref] ELSE a

\* the errors of Adapter.LatestBackup: there is no marker object (no backup
\* was ever made), the store is not configured, the client cannot be built,
\* the read of the marker fails otherwise, the marker cannot be parsed
NoSuchMarker == <<"read latest backup marker: NoSuchKey">>
LatestBackupErrors ==
  { NoSuchMarker,
    <<"s3 backup not configured">>,
    <<"aws client">>,
    <<"read latest backup marker: request failed">>,
    <<"parse latest backup marker">> }

\* Adapter.LatestBackup: the results <<ok, ref>> it can produce, and for a
\* failure <<FALSE, error>>
LatestBackupResults(a, g) ==
  IF TrimSpace(a[g].lastBackup) # EmptyStr
  THEN {<<TRUE, a[g].lastBackup>>}
  ELSE {<<FALSE, e>> : e \in LatestBackupErrors} \cup {<<TRUE, r>> : r \in MarkerRefs}

\* results of a Backup on adapter g: <<ok, ref>>
BackupResults(g) ==
  {<<TRUE, r>> : r \in BackupRefs}
  \cup (IF g \in Fallible THEN {<<FALSE, EmptyStr>>} ELSE {})

adapterByType(t) ==
  IF \E g \in Games : Type(g) = t
  THEN <<TRUE, CHOOSE g \in Games : Type(g) = t>>
  ELSE <<FALSE, NoGame>>

\* ------------------------------------------------------------------- results
Ok == [kind |-> "ok", ad |-> NoGame, m |-> "", val |-> EmptyStr, synced |-> FALSE]
OkVal(v) == [kind |-> "ok", ad |-> NoGame, m |-> "", val |-> v, synced |-> FALSE]
Err(e) == [kind |-> e, ad |-> NoGame, m |-> "", val |-> EmptyStr, synced |-> FALSE]
\* the error returned by method m of adapter g, passed through unchanged
AdErr(g, m) ==
  [kind |-> "adapter", ad |-> g, m |-> m, val |-> EmptyStr, synced |-> FALSE]
None == [kind |-> "none", ad |-> NoGame, m |-> "", val |-> EmptyStr, synced |-> FALSE]
\* StopResult{Stopped: true, Backup: k, Synced: synced}
StopResult(k, synced) ==
  [kind |-> "ok", ad |-> NoGame, m |-> "", val |-> k, synced |-> synced]

\* one adapter call: the adapter, the method, whether it succeeded, and the
\* string it was given or returned
Call(g, m, ok, v) == [ad |-> g, m |-> m, ok |-> ok, val |-> v]

\* ad.Status of both adapters: the adapter's name and its fields as they are
\* at the time of the call
AdapterStatus(a, g) ==
  [present |-> TRUE, adapter |-> g, running |-> a[g].running,
   last_backup |-> a[g].lastBackup]
\* no "game_status" entry
NoGameStatus ==
  [present |-> FALSE, adapter |-> NoGame, running |-> FALSE, last_backup |-> EmptyStr]
\* GameAdapter.Status returns (map, error): the controller must cope with an
\* error although neither registered adapter returns one today
StatusOutcomes(g) == {TRUE, FALSE}

\* no Status call has returned yet
NoStatusYet ==
  [returned |-> FALSE, err |-> FALSE, active_game |-> NoGame, phase |-> "",
   last_backups |-> EmptyMap, source_by_game |-> EmptyMap, updated_at |-> 0,
   game_status |-> NoGameStatus, adapter_call |-> "none"]

NoOp == [name |-> "", game |-> NoGame, dataURL |-> EmptyStr]
NoCall == [proc |-> 0, name |-> "", game |-> NoGame, dataURL |-> EmptyStr]
OpNames == {"Start", "Stop", "Switch", "Backup", "Command"}
\* the argument lists a call of operation n may carry
OpCalls(n) ==
  IF n = "Start"
  THEN {[name |-> n, game |-> g, dataURL |-> d] : g \in GameNames, d \in Locators}
  ELSE IF n = "Switch"
  THEN {[name |-> n, game |-> g, dataURL |-> EmptyStr] : g \in GameNames}
  ELSE {[name |-> n, game |-> NoGame, dataURL |-> EmptyStr]}

\* ------------------------------------------- awsruntime: service stability
\* defaultWaitPoll, and the timeout used when the caller gives none, in seconds
defaultWaitPoll == 5
defaultTimeout == 600

DRAINING == <<"D", "R", "A", "I", "N", "I", "N", "G">>
COMPLETED == <<"C", "O", "M", "P", "L", "E", "T", "E", "D">>
ACTIVE == <<"A", "C", "T", "I", "V", "E">>

\* simple case folding of the letters that occur
Fold ==
  [c \in {"a", "c", "d", "e", "g", "i", "l", "m", "n", "o", "p", "r", "t", "v"} |->
     CASE c = "a" -> "A" [] c = "c" -> "C" [] c = "d" -> "D" [] c = "e" -> "E"
       [] c = "g" -> "G" [] c = "i" -> "I" [] c = "l" -> "L" [] c = "m" -> "M"
       [] c = "n" -> "N" [] c = "o" -> "O" [] c = "p" -> "P" [] c = "r" -> "R"
       [] c = "t" -> "T" [] c = "v" -> "V"]
ToUpper(c) == IF c \in DOMAIN Fold THEN Fold[c] ELSE c
\* strings.EqualFold
EqualFold(a, b) ==
  Len(a) = Len(b) /\ \A i \in 1..Len(a) : ToUpper(a[i]) = ToUpper(b[i])

\* variant: a service with several deployments counts when the newest has
\* converged
isStableRollingOver(s) ==
  IF EqualFold(TrimSpace(s.Status), DRAINING) THEN FALSE
  ELSE IF s.PendingCount # 0 THEN FALSE
  ELSE IF s.RunningCount # s.DesiredCount THEN FALSE
  ELSE IF Len(s.Deployments) = 0 THEN FALSE
  ELSE LET d == s.Deployments[1] IN
       IF d.PendingCount # 0 THEN FALSE
       ELSE IF d.RunningCount # d.DesiredCount THEN FALSE
       ELSE IF d.RunningCount # s.DesiredCount THEN FALSE
       ELSE IF TrimSpace(d.RolloutState) # EmptyStr
               /\ ~EqualFold(TrimSpace(d.RolloutState), COMPLETED) THEN FALSE
       ELSE TRUE

\* ECSServiceState.isStable
isStable(s) ==
  IF EqualFold(TrimSpace(s.Status), DRAINING) THEN FALSE
  ELSE IF s.PendingCount # 0 THEN FALSE
  ELSE IF s.RunningCount # s.DesiredCount THEN FALSE
  ELSE IF Len(s.Deployments) = 0 THEN FALSE
  ELSE IF Len(s.Deployments) > 1 THEN FALSE
  ELSE LET d == s.Deployments[1] IN
       IF d.PendingCount # 0 THEN FALSE
       ELSE IF d.RunningCount # d.DesiredCount THEN FALSE
       ELSE IF d.RunningCount # s.DesiredCount THEN FALSE
       ELSE IF TrimSpace(d.RolloutState) # EmptyStr
               /\ ~EqualFold(TrimSpace(d.RolloutState), COMPLETED) THEN FALSE
       ELSE TRUE

\* ecsDeployment and ECSServiceState values
Deployment(rollout, desired, running, pending) ==
  [RolloutState |-> rollout, DesiredCount |-> desired, RunningCount |-> running,
   PendingCount |-> pending]
ServiceState(stat, desired, running, pending, deployments) ==
  [Status |-> stat, DesiredCount |-> desired, RunningCount |-> running,
   PendingCount |-> pending, Deployments |-> deployments]

\* values of the status and rolloutState fields: exact, in another case,
\* padded with white space, blank, and other words
Statuses ==
  { ACTIVE, DRAINING, EmptyStr,
    <<"d", "r", "a", "i", "n", "i", "n", "g", " ">>,
    <<"D", "R", "A", "I", "N">> }
RolloutStates ==
  { COMPLETED, EmptyStr, <<" ">>, <<"I", "N">>,
    <<"c", "o", "m", "p", "l", "e", "t", "e", "d">>,
    <<" ", "C", "o", "m", "p", "l", "e", "t", "e", "d", " ">> }

\* service states a describe call may report: a converged service with each
\* status and each rollout state, every combination of the three counters of
\* the service and of its only deployment, no deployment, and two deployments
\* (both converged, or rolling over); a draining service scaled to zero
ServiceStates ==
  { ServiceState(x, 1, 1, 0, << Deployment(COMPLETED, 1, 1, 0) >>) : x \in Statuses }
  \cup { ServiceState(ACTIVE, 1, 1, 0, << Deployment(x, 1, 1, 0) >>) : x \in RolloutStates }
  \cup { ServiceState(ACTIVE, d, r, p, << Deployment(COMPLETED, d, r, 0) >>) :
            d \in 0..1, r \in 0..1, p \in 0..1 }
  \cup { ServiceState(ACTIVE, 1, 1, 0, << Deployment(COMPLETED, d, r, p) >>) :
            d \in 0..1, r \in 0..1, p \in 0..1 }
  \cup { ServiceState(ACTIVE, 1, 1, 0, <<>>),
         ServiceState(ACTIVE, 1, 1, 0,
                      << Deployment(COMPLETED, 1, 1, 0), Deployment(COMPLETED, 1, 1, 0) >>),
         ServiceState(ACTIVE, 1, 0, 1, << Deployment(<<"I", "N">>, 1, 0, 1) >>),
         ServiceState(ACTIVE, 1, 1, 0,
                      << Deployment(<<"I", "N">>, 1, 1, 0), Deployment(COMPLETED, 1, 0, 0) >>),
         ServiceState(<<"d", "r", "a", "i", "n", "i", "n", "g", " ">>, 0, 0, 0,
                      << Deployment(COMPLETED, 0, 0, 0) >>) }

\* ways DescribeService fails: request error, non-2xx response, reported
\* failure, service not found
DescribeFailures == {"request", "http", "failure", "notfound"}

\* DescribeService results: a service state or an error
Described(s) == [err |-> "", state |-> s]
DescribeFailed(e) ==
  [err |-> e, state |-> ServiceState(EmptyStr, 0, 0, 0, <<>>)]
NoDescribe == DescribeFailed("none")
DescribeResults ==
  {Described(s) : s \in ServiceStates} \cup {DescribeFailed(e) : e \in DescribeFailures}

\* WaitServiceStable results
WaitNone == [kind |-> "none", cause |-> ""]
WaitOk == [kind |-> "ok", cause |-> ""]
\* errors.New("cluster and service are required")
WaitInvalid == [kind |-> "validation", cause |-> ""]
\* the error of DescribeService, returned as it is
WaitDescribeErr(e) == [kind |-> "describe", cause |-> e]
\* fmt.Errorf("wait for ecs service stable: %w", deadlineCtx.Err())
WaitTimeoutErr(e) == [kind |-> "wait", cause |-> e]

\* arguments of WaitServiceStable
ServiceNames == {<<>>, <<" ">>, <<"s">>}
Timeouts == (0 - 1)..MaxTimeout

\* --------------------------- minecraft adapter: paths and the file system
\* A path is the sequence of its elements below the root.  A name as the code
\* handles it (an archive entry name, a key, a reference, a source locator)
\* is a sequence of tokens: elements, separators and white space.
Sep == "/"
\* a.dataDir (MC_DATA_DIR)
DataDir == <<"data">>
\* the entry clearDirectory and copyDirectoryContents skip
GitName == ".git"

\* what a path holds: a directory that can be searched (0755), a directory
\* created with mode 0666, the contents of a regular file, a symbolic link
\* to a name in the same directory, or a socket
Dir == "dir"
DirNoSearch == "dir0666"
Contents == {"x", "y"}
LinkTarget == ("->a" :> <<"a">>) @@ ("->d" :> <<"d">>) @@ ("->gone" :> <<"gone">>)
Socket == "socket"
IsLink(v) == v \in DOMAIN LinkTarget
IsDirValue(v) == v \in {Dir, DirNoSearch}
IsRegular(v) == v \in Contents

\* the names that occur, in the order os.ReadDir and filepath.WalkDir list them
NameOrder ==
  <<".git", "HEAD", "a", "b", "d", "data", "etc", "f", "gone", "l", "p", "passwd", "s">>
Rank(n) == CHOOSE i \in 1..Len(NameOrder) : NameOrder[i] = n
RECURSIVE SortNames(_)
SortNames(S) ==
  IF S = {} THEN <<>>
  ELSE LET m == CHOOSE x \in S : \A y \in S : Rank(x) <= Rank(y)
       IN <<m>> \o SortNames(S \ {m})

Parent(p) == SubSeq(p, 1, Len(p) - 1)
IsPrefix(a, p) == Len(a) <= Len(p) /\ SubSeq(p, 1, Len(a)) = a
Exists(f, p) == p \in DOMAIN f
IsDir(f, p) == p = <<>> \/ (Exists(f, p) /\ IsDirValue(f[p]))
Children(f, p) == {q \in DOMAIN f : Len(q) = Len(p) + 1 /\ IsPrefix(p, q)}
\* os.ReadDir: the names in a directory, sorted
ReadDir(f, p) == SortNames({q[Len(q)] : q \in Children(f, p)})
Put(f, p, v) == [q \in (DOMAIN f) \cup {p} |-> IF q = p THEN v ELSE f[q]]
\* the tree below a directory, by relative path
Tree(f, root) ==
  [r \in {SubSeq(q, Len(root) + 1, Len(q)) : q \in {x \in DOMAIN f : IsPrefix(root, x) /\ x # root}}
     |-> f[root \o r]]
\* the file system apart from a directory and what is below it
Outside(f, root) == [q \in {x \in DOMAIN f : ~IsPrefix(root, x)} |-> f[q]]
\* a tree placed below a directory
Graft(f, root, t) ==
  [q \in {x \in DOMAIN f : ~IsPrefix(root, x) \/ x = root} \cup {root \o r : r \in DOMAIN t}
     |-> IF IsPrefix(root, q) /\ q # root THEN t[SubSeq(q, Len(root) + 1, Len(q))] ELSE f[q]]
\* a tree with the modes of its directories left out
Plain(t) == [r \in DOMAIN t |-> IF IsDirValue(t[r]) THEN Dir ELSE t[r]]

\* the process may create or open entries in a directory: it needs search
\* permission on it, which a privileged process always has
MaySearch(f, p, priv) == IsDir(f, p) /\ (p = <<>> \/ priv \/ f[p] = Dir)

\* os.MkdirAll(p, mode): missing directories are created with the mode given
RECURSIVE MkdirAll(_, _, _, _)
MkdirAll(f, p, mode, priv) ==
  IF IsDir(f, p) THEN [fs |-> f, ok |-> TRUE]
  ELSE IF Exists(f, p) THEN [fs |-> f, ok |-> FALSE]
  ELSE LET up == MkdirAll(f, Parent(p), mode, priv) IN
       IF ~up.ok THEN up
       ELSE IF ~MaySearch(up.fs, Parent(p), priv) THEN [fs |-> up.fs, ok |-> FALSE]
       ELSE [fs |-> Put(up.fs, p, mode), ok |-> TRUE]

\* the path an open of p reaches: the target of a symbolic link, else p
Follow(f, p) ==
  IF Exists(f, p) /\ IsLink(f[p]) THEN Parent(p) \o LinkTarget[f[p]] ELSE p

\* os.OpenFile(p, O_CREATE|O_TRUNC|O_WRONLY) and io.Copy of the data
WriteFile(f, p, data, priv) ==
  IF p = <<>> \/ IsDir(f, Follow(f, p)) \/ ~MaySearch(f, Parent(p), priv)
     \/ (Exists(f, Follow(f, p)) /\ ~IsRegular(f[Follow(f, p)]))
  THEN [fs |-> f, ok |-> FALSE]
  ELSE [fs |-> Put(f, Follow(f, p), data), ok |-> TRUE]

\* os.RemoveAll
RemoveAll(f, p) == [q \in {x \in DOMAIN f : ~IsPrefix(p, x)} |-> f[q]]

\* variant: clearDirectory keeps nothing
ClearKeepsNothing(name) == FALSE

\* the entries clearDirectory leaves in place
ClearKeeps(name) == name = GitName

\* the first k of the listed entries removed, kept entries excepted
RECURSIVE RemoveFirst(_, _, _, _)
RemoveFirst(f, dir, names, k) ==
  IF k = 0 \/ names = <<>> THEN f
  ELSE RemoveFirst(IF ClearKeeps(Head(names)) THEN f
                   ELSE RemoveAll(f, Append(dir, Head(names))),
                   dir, Tail(names), k - 1)

\* clearDirectory: every entry but the kept ones is removed in the listed
\* order; a removal may fail, and the entries before it are gone then
clearDirectory(f, dir) ==
  IF ~IsDir(f, dir) THEN {[fs |-> f, ok |-> FALSE]}
  ELSE LET names == ReadDir(f, dir) IN
       {[fs |-> RemoveFirst(f, dir, names, Len(names)), ok |-> TRUE]}
       \cup {[fs |-> RemoveFirst(f, dir, names, k - 1), ok |-> FALSE] :
               k \in {i \in 1..Len(names) : ~ClearKeeps(names[i])}}

\* resetDirectory: MkdirAll(dir, 0755), then clearDirectory
resetDirectory(f, dir, priv) ==
  LET made == MkdirAll(f, dir, Dir, priv) IN
  IF ~made.ok THEN {made} ELSE clearDirectory(made.fs, dir)

\* ------------------------------------------------ path/filepath on tokens
\* the elements of a name: what stands between separators
Elems(name) == SelectSeq(name, LAMBDA t : t # Sep)
Rooted(name) == name # <<>> /\ name[1] = Sep
RECURSIVE JoinSlash(_)
JoinSlash(p) ==
  IF p = <<>> THEN <<>>
  ELSE IF Len(p) = 1 THEN p
  ELSE <<Head(p), Sep>> \o JoinSlash(Tail(p))

\* the element stack of filepath.Clean: "." is dropped, ".." takes back the
\* element before it, is dropped at the root, and is kept otherwise
RECURSIVE CleanElems(_, _, _)
CleanElems(todo, out, rooted) ==
  IF todo = <<>> THEN out
  ELSE LET e == Head(todo) IN
       CleanElems(Tail(todo),
                  IF e = "." THEN out
                  ELSE IF e = ".."
                  THEN IF out # <<>> /\ out[Len(out)] # ".." THEN Parent(out)
                       ELSE IF rooted THEN out
                       ELSE Append(out, "..")
                  ELSE Append(out, e),
                  rooted)
\* filepath.Clean
Clean(name) ==
  LET out == CleanElems(Elems(name), <<>>, Rooted(name)) IN
  IF Rooted(name) THEN <<Sep>> \o JoinSlash(out)
  ELSE IF out = <<>> THEN <<".">>
  ELSE JoinSlash(out)
\* filepath.IsAbs
IsAbs(name) == Rooted(name)
\* strings.HasPrefix(name, ".."): the first element starts with two dots
DotDotNames == {"..", "..a"}
HasDotDotPrefix(name) == name # <<>> /\ name[1] \in DotDotNames
\* filepath.Join(dir, name) for a directory given as a path; the result as a path
Join(dir, name) == Elems(Clean(<<Sep>> \o JoinSlash(dir) \o <<Sep>> \o name))

\* ------------------------------------------------------ archive/zip
\* an archive entry: its name, the data of a file, and whether its header
\* carries unix permissions (zip.FileInfoHeader) or none (zip.Writer.Create)
Entry(name, perm, data) == [Name |-> name, Perm |-> perm, Data |-> data]
\* f.FileInfo().IsDir(): the name ends with a separator
EntryIsDir(e) == e.Name # <<>> /\ e.Name[Len(e.Name)] = Sep
\* f.Mode() of a directory entry: 0666 when the header has no permissions
EntryMode(e) == IF e.Perm = "none" THEN DirNoSearch ELSE Dir

\* os.Open(p) and io.Copy in the callback of zipDirectory succeed: the
\* open follows a symbolic link, and what it reaches is a regular file
Readable(f, p) == Exists(f, Follow(f, p)) /\ IsRegular(f[Follow(f, p)])

\* the callback of filepath.WalkDir in zipDirectory, over the listed names
\* of one directory: a directory gives the entry "rel/" and then its own
\* entries; anything else gives the entry "rel" with the header of what the
\* name holds and the data that opening the name reads
RECURSIVE WalkDir(_, _, _, _)
WalkDir(f, srcDir, rel, names) ==
  IF names = <<>> THEN <<>>
  ELSE LET r == Append(rel, Head(names))
           p == srcDir \o r
       IN (IF IsDirValue(f[p])
           THEN <<Entry(JoinSlash(r) \o <<Sep>>, "none", "")>>
                  \o WalkDir(f, srcDir, r, ReadDir(f, p))
           ELSE IF ~Readable(f, p) THEN <<>>
           ELSE <<Entry(JoinSlash(r), IF IsLink(f[p]) THEN "symlink" ELSE "unix",
                        f[Follow(f, p)])>>)
          \o WalkDir(f, srcDir, rel, Tail(names))

\* the callback returns an error for some name under srcDir
WalkFails(f, srcDir) ==
  \E p \in DOMAIN f :
    /\ Len(p) > Len(srcDir) /\ SubSeq(p, 1, Len(srcDir)) = srcDir
    /\ ~IsDirValue(f[p]) /\ ~Readable(f, p)

\* an object of the store: an archive (its entries, and whether its central
\* directory was written) or a text
Archive(entries, complete) == [entries |-> entries, complete |-> complete, text |-> <<>>]
Text(t) == [entries |-> <<>>, complete |-> FALSE, text |-> t]
NoObject == Text(<<"none">>)

\* zipDirectory: the archive is written in full; or the walk fails and the
\* error is returned; or the walk succeeds and the deferred zw.Close(),
\* which flushes the buffered output and writes the central directory,
\* fails: its error is dropped and zipDirectory returns nil
ZipOutcomes(f, srcDir) ==
  LET entries == WalkDir(f, srcDir, <<>>, ReadDir(f, srcDir)) IN
  IF WalkFails(f, srcDir) THEN { [zip |-> Archive(<<>>, FALSE), ok |-> FALSE] }
  ELSE { [zip |-> Archive(entries, TRUE), ok |-> TRUE],
         [zip |-> Archive(<<>>, FALSE), ok |-> FALSE],
         [zip |-> Archive(entries, FALSE), ok |-> TRUE] }

\* variant: only absolute entry names are rejected
RejectsEntryAbsOnly(cleanName) == IsAbs(cleanName)

\* the test of unzipToDirectory on a cleaned entry name
RejectsEntry(cleanName) == IsAbs(cleanName) \/ HasDotDotPrefix(cleanName)

\* one iteration of the loop of unzipToDirectory
unzipEntry(f, dstDir, e, priv) ==
  LET cleanName == Clean(e.Name) IN
  IF RejectsEntry(cleanName) THEN [fs |-> f, err |-> "invalid path"]
  ELSE LET outPath == Join(dstDir, cleanName) IN
       IF EntryIsDir(e)
       THEN LET made == MkdirAll(f, outPath, EntryMode(e), priv) IN
            [fs |-> made.fs, err |-> IF made.ok THEN "" ELSE "mkdir"]
       ELSE LET made == MkdirAll(f, Parent(outPath), Dir, priv) IN
            IF ~made.ok THEN [fs |-> made.fs, err |-> "mkdir parent"]
            ELSE LET w == WriteFile(made.fs, outPath, e.Data, priv) IN
                 [fs |-> w.fs, err |-> IF w.ok THEN "" ELSE "open output file"]

\* --------------------------------------------- keys and backup references
S3Scheme == "s3://"
\* a.bucket when BACKUP_BUCKET is set, and another bucket
Bucket == <<"b">>
OtherBucket == <<"c">>
\* a.backupPrefix (BACKUP_PREFIX, default "backups")
backupPrefix == <<"backups">>
\* the formatted times of the backups of a run, in order
Timestamps == <<"t1.zip", "t2.zip">>
\* a.backupKey() at a given time
backupKeyAt(ts) ==
  LET base == <<"minecraft", Sep, ts>> IN
  IF backupPrefix = <<>> THEN base ELSE backupPrefix \o <<Sep>> \o base
\* a.latestBackupKey()
latestBackupKey ==
  LET key == <<"minecraft", Sep, "latest.txt">> IN
  IF backupPrefix # <<>> THEN backupPrefix \o <<Sep>> \o key ELSE key
\* fmt.Sprintf("s3://%s/%s", bucket, key)
Uri(bucket, key) == <<S3Scheme>> \o bucket \o <<Sep>> \o key

\* strings.Trim(s, "/")
RECURSIVE TrimSlashes(_)
TrimSlashes(s) ==
  IF s = <<>> THEN s
  ELSE IF Head(s) = Sep THEN TrimSlashes(Tail(s))
  ELSE IF s[Len(s)] = Sep THEN TrimSlashes(SubSeq(s, 1, Len(s) - 1))
  ELSE s
\* the object a storage call addresses: the bucket trimmed of white space,
\* the key trimmed of white space and of separators
Address(bucket, key) == <<TrimSpace(bucket), TrimSlashes(TrimSpace(key))>>

\* strings.SplitN(s, sep, 2)
SplitN2(s, sep) ==
  IF \E i \in 1..Len(s) : s[i] = sep
  THEN LET i == CHOOSE i \in 1..Len(s) : s[i] = sep /\ \A j \in 1..(i - 1) : s[j] # sep
       IN <<SubSeq(s, 1, i - 1), SubSeq(s, i + 1, Len(s))>>
  ELSE <<s>>

ParsedRef(bucket, key) == [bucket |-> bucket, key |-> key, err |-> ""]
RefError(e) == [bucket |-> <<>>, key |-> <<>>, err |-> e]

\* variant: a reference without a key is taken with an empty key
parseBackupRefAnyParts(defaultBucket, backupRef) ==
  LET ref == TrimSpace(backupRef) IN
  IF ref = <<>> THEN RefError("empty backup ref")
  ELSE IF Head(ref) = S3Scheme
  THEN LET parts == SplitN2(Tail(ref), Sep) IN
       ParsedRef(parts[1], IF Len(parts) = 2 THEN parts[2] ELSE <<>>)
  ELSE IF defaultBucket = <<>> THEN RefError("default bucket is empty")
  ELSE ParsedRef(defaultBucket, ref)

\* parseBackupRef
parseBackupRef(defaultBucket, backupRef) ==
  LET ref == TrimSpace(backupRef) IN
  IF ref = <<>> THEN RefError("empty backup ref")
  ELSE IF Head(ref) = S3Scheme
  THEN LET parts == SplitN2(Tail(ref), Sep) IN
       IF Len(parts) # 2 \/ TrimSpace(parts[1]) = <<>> \/ TrimSpace(parts[2]) = <<>>
       THEN RefError("invalid s3 backup ref")
       ELSE ParsedRef(parts[1], parts[2])
  ELSE IF defaultBucket = <<>> THEN RefError("default bucket is empty")
  ELSE ParsedRef(defaultBucket, ref)

\* ------------------------------------------------------ source locators
\* strings.TrimPrefix(s, "/")
TrimPrefixSep(s) == IF s # <<>> /\ Head(s) = Sep THEN Tail(s) ELSE s
\* parseSourceURL: "<repo>#<ref>:<path>", with ref "main" and no path by default
parseSourceURL(raw) ==
  LET parts == SplitN2(TrimSpace(raw), "#") IN
  IF Len(parts) = 1
  THEN [repoURL |-> parts[1], ref |-> <<"main">>, path |-> <<>>]
  ELSE LET refParts == SplitN2(parts[2], ":") IN
       [repoURL |-> parts[1],
        ref |-> IF TrimSpace(refParts[1]) # <<>> THEN TrimSpace(refParts[1]) ELSE <<"main">>,
        path |-> IF Len(refParts) = 2 THEN TrimPrefixSep(TrimSpace(refParts[2])) ELSE <<>>]
\* repository URLs url.Parse rejects
InvalidURLs == {<<"%">>}
\* a.withGitToken: the URL is parsed only when a token is configured
withGitToken(gitToken, repoURL) == gitToken = "" \/ repoURL \notin InvalidURLs

\* the working trees "git clone --depth 1 --branch <ref>" checks out, with
\* the repository's metadata directory at the top
EmptyTree == [r \in {} |-> Dir]
Repos ==
  (<<<<"u">>, <<"main">>>> :>
     (<<".git">> :> Dir @@ <<".git", "HEAD">> :> "x" @@ <<"a">> :> "y"
        @@ <<"p">> :> Dir @@ <<"p", "f">> :> "x" @@ <<"p", ".git">> :> "y"))
  @@ (<<<<"u">>, <<"r">>>> :>
     (<<".git">> :> Dir @@ <<".git", "HEAD">> :> "y" @@ <<"b">> :> "x"))

\* variant: the copy skips nothing
CopySkipsNothing(name) == FALSE

\* the entries copyDirectoryContents skips at the top of the source
CopySkips(name) == name = GitName

\* copyPath and the loops over the children of a directory; the source is
\* a tree in scratch space, the destination a path of the file system
RECURSIVE copyPath(_, _, _, _, _)
RECURSIVE copyEntries(_, _, _, _, _, _, _)
copyPath(f, t, src, dst, priv) ==
  IF ~IsDirValue(t[src]) THEN WriteFile(f, dst, t[src], priv)
  ELSE LET made == MkdirAll(f, dst, t[src], priv) IN
       IF ~made.ok THEN made
       ELSE copyEntries(made.fs, t, src, dst, ReadDir(t, src), priv, FALSE)
copyEntries(f, t, src, dst, names, priv, top) ==
  IF names = <<>> THEN [fs |-> f, ok |-> TRUE]
  ELSE IF top /\ CopySkips(Head(names))
  THEN copyEntries(f, t, src, dst, Tail(names), priv, top)
  ELSE LET c == copyPath(f, t, Append(src, Head(names)), Append(dst, Head(names)), priv) IN
       IF ~c.ok THEN c
       ELSE copyEntries(c.fs, t, src, dst, Tail(names), priv, top)
\* copyDirectoryContents
copyDirectoryContents(f, t, srcDir, dstDir, priv) ==
  LET made == MkdirAll(f, dstDir, Dir, priv) IN
  IF ~made.ok THEN made
  ELSE IF ~IsDir(t, srcDir) THEN [fs |-> made.fs, ok |-> FALSE]
  ELSE copyEntries(made.fs, t, srcDir, dstDir, ReadDir(t, srcDir), priv, TRUE)

\* ---------------------------------------------- inputs of the adapter runs
\* the configurations NewAdapter reads from the environment (BACKUP_BUCKET,
\* GIT_AUTH_TOKEN) and whether the process is privileged
Configs ==
  { [bucket |-> Bucket, gitToken |-> "", privileged |-> TRUE],
    [bucket |-> Bucket, gitToken |-> "t", privileged |-> FALSE],
    [bucket |-> <<>>, gitToken |-> "", privileged |-> TRUE] }

\* the file system at the start: the data directory and a file outside it
InitialFs ==
  DataDir :> Dir @@ <<"etc">> :> Dir @@ <<"etc", "passwd">> :> "x"

\* what the game server leaves in the data directory
Trees ==
  { EmptyTree,
    <<"a">> :> "x",
    <<"a">> :> "y" @@ <<"d">> :> Dir @@ <<"d", "f">> :> "x",
    <<"d">> :> Dir @@ <<".git">> :> Dir @@ <<".git", "HEAD">> :> "x",
    <<"a">> :> "x" @@ <<"l">> :> "->a",
    <<"d">> :> Dir @@ <<"l">> :> "->d",
    <<"l">> :> "->gone",
    <<"s">> :> Socket }

\* objects others have put into the store: archives with an entry that
\* climbs out of the destination, one with an absolute entry, a sound
\* archive written by a unix tool, and a text
ForeignObjects ==
  (<<Bucket, <<"x1">>>> :>
     Archive(<< Entry(<<"a">>, "unix", "y"),
                Entry(<<"..", Sep, "..", Sep, "etc", Sep, "passwd">>, "unix", "y"),
                Entry(<<"b">>, "unix", "y") >>, TRUE))
  @@ (<<Bucket, <<"x2">>>> :>
     Archive(<< Entry(<<"a", Sep, "..", Sep, "..", Sep, "b">>, "unix", "y") >>, TRUE))
  @@ (<<Bucket, <<"x3">>>> :>
     Archive(<< Entry(<<Sep, "etc", Sep, "passwd">>, "unix", "y") >>, TRUE))
  @@ (<<OtherBucket, <<"x4">>>> :>
     Archive(<< Entry(<<"d", Sep>>, "unix", ""), Entry(<<"d", Sep, "f">>, "unix", "y"),
                Entry(<<".", Sep, "a">>, "unix", "x") >>, TRUE))
  @@ (<<Bucket, <<"x5">>>> :> Text(<<"hello">>))

\* backup references passed to Restore
RestoreRefs ==
  { Uri(Bucket, backupKeyAt(Timestamps[i])) : i \in 1..Len(Timestamps) }
  \cup { <<>>, <<" ">>,
         <<"x1">>, <<" ", "x2">>, <<"x3">>, <<"x5">>, <<"x9">>,
         <<S3Scheme, "c", Sep, "x4">>,
         <<" ", S3Scheme, "b", Sep, "x1", " ">>,
         <<S3Scheme, "b">>, <<S3Scheme, Sep, "x1">>, <<S3Scheme, "b", Sep, " ">>,
         <<S3Scheme, " ", Sep, "x1">>, <<S3Scheme, "b", Sep, Sep>> }

\* source locators passed to SeedFromSource
SourceURLs ==
  { <<>>, <<" ">>, <<"u">>, <<" ", "u", "#", "r">>,
    <<"u", "#", "main", ":", Sep, "p">>, <<"u", "#", ":", "q">>,
    <<"u", "#", ":", "a">>, <<"%">>, <<"v">> }

\* results of the adapter's methods
ANone == [ok |-> FALSE, val |-> <<>>, err |-> "none"]
AOk(v) == [ok |-> TRUE, val |-> v, err |-> ""]
AErr(e) == [ok |-> FALSE, val |-> <<>>, err |-> e]
\* the locals of a method: the temporary archive, the resolved bucket and
\* key, the index of the entry being extracted, the cloned working tree and
\* the parsed source path
NoTmp ==
  [zip |-> NoObject, bucket |-> <<>>, key |-> <<>>, zi |-> 0, repo |-> EmptyTree,
   path |-> <<>>]
NoACall == [name |-> "none", arg |-> <<>>]

\* ------------------------------------------- the state store and its maps
\* a Go map is a reference: a State holds the addresses of its two maps, and
\* the heap gives the map at each address; address 0 is the nil map
NilMap == 0
Deref(h, a) == IF a = NilMap THEN EmptyMap ELSE h[a]
\* the record a State with its maps denotes
Content(h, s) ==
  [s EXCEPT !.LastBackups = Deref(h, s.LastBackups),
            !.SourceByGame = Deref(h, s.SourceByGame)]
\* State{}: the zero value
ZeroState ==
  [ActiveGame |-> NoGame, Phase |-> "", LastBackups |-> NilMap,
   SourceByGame |-> NilMap, UpdatedAt |-> 0]
\* the callers of the store
Callers == {1, 2}
\* values a caller assigns to the fields of the State it holds
CallerPhases == {"running", "switching"}
CallerTimes == {9}
CallerRefs == {<<"a">>, <<"b">>}

\* variant: the copy shares the maps of the original
cloneStateShared(h, s) == [heap |-> h, s |-> s]

\* cloneState: cp := s, and for each of the two maps a new map is made and
\* filled with the entries of the original
cloneStateRef(h, s) ==
  [heap |-> h \o <<Deref(h, s.LastBackups), Deref(h, s.SourceByGame)>>,
   s |-> [s EXCEPT !.LastBackups = Len(h) + 1, !.SourceByGame = Len(h) + 2]]

Init ==
  /\ store = NewMemoryState
  /\ opMu = 0
  /\ adapters = [g \in Games |-> NewAdapter]
  /\ pc = [p \in Procs |-> "idle"]
  /\ op = [p \in Procs |-> NoOp]
  /\ st = [p \in Procs |-> NewMemoryState]
  /\ backupKey = [p \in Procs |-> EmptyStr]
  /\ call = NoCall
  /\ trace = <<>>
  /\ result = None
  /\ snap = NewMemoryState
  /\ status = NoStatusYet
  /\ ops = 0
  /\ wpc = "idle"
  /\ now = 0
  /\ deadline = 0
  /\ tick = 0
  /\ ctxErr = "none"
  /\ last = NoDescribe
  /\ stableSeen = FALSE
  /\ wres = WaitNone
  /\ fs = InitialFs
  /\ s3 = ForeignObjects
  /\ cfg = [bucket |-> <<>>, gitToken |-> "", privileged |-> FALSE]
  /\ mc = [lastBackup |-> <<>>, lastSource |-> <<>>, aws |-> FALSE]
  /\ apc = "new"
  /\ acall = NoACall
  /\ ares = ANone
  /\ tmp = NoTmp
  /\ pre = InitialFs
  /\ net = <<>>
  /\ saved = [ref |-> <<>>, tree |-> EmptyTree]
  /\ acalls = 0
  /\ heap = <<EmptyMap, EmptyMap>>
  /\ mstate = [ActiveGame |-> NoGame, Phase |-> "stopped", LastBackups |-> 1,
               SourceByGame |-> 2, UpdatedAt |-> 0]
  /\ held = [c \in Callers |-> ZeroState]
  /\ mclock = 0
  /\ written = NewMemoryState
  /\ mops = 0

\* ------------------------------------------------------------ common steps
\* a request arrives and calls one of the mutating operations; the handler
\* reads its arguments only after Lock() has returned, so they are drawn there
Invoke(p) ==
  /\ pc[p] = "idle"
  /\ ops < MaxOps
  /\ \E n \in OpNames : op' = [op EXCEPT ![p] = [NoOp EXCEPT !.name = n]]
  /\ pc' = [pc EXCEPT ![p] = "lock"]
  /\ ops' = ops + 1
  /\ UNCHANGED <<store, opMu, adapters, st, backupKey, call, trace, result, snap, status, waitVars, mcVars, memVars>>

\* variant: Lock() does not wait for the holder
MayLockAlways(p) == TRUE

\* c.opMu.Lock()
MayLock(p) == opMu = 0

Acquire(p) ==
  /\ pc[p] = "lock"
  /\ MayLock(p)
  /\ opMu' = p
  /\ \E o \in OpCalls(op[p].name) :
       /\ op' = [op EXCEPT ![p] = o]
       /\ call' = [proc |-> p, name |-> o.name, game |-> o.game, dataURL |-> o.dataURL]
  /\ pc' = [pc EXCEPT ![p] = "entry"]
  /\ trace' = <<>>
  /\ result' = None
  /\ snap' = store
  /\ UNCHANGED <<store, adapters, st, backupKey, status, ops, waitVars, mcVars, memVars>>

\* variant: a return path that leaves without unlocking
UnlockForgotten(p) == opMu

\* defer c.opMu.Unlock(): the value of opMu after any return of the holder
Unlock(p) == 0

\* return res: the deferred c.opMu.Unlock() runs and the handler's
\* parameters and locals are gone
Finish(p, res) ==
  /\ pc' = [pc EXCEPT ![p] = "idle"]
  /\ result' = res
  /\ opMu' = Unlock(p)
  /\ op' = [op EXCEPT ![p] = NoOp]
  /\ st' = [st EXCEPT ![p] = NewMemoryState]
  /\ backupKey' = [backupKey EXCEPT ![p] = EmptyStr]

\* continue at label l with local State s and local backup key k
Goto(p, l, s, k) ==
  /\ pc' = [pc EXCEPT ![p] = l]
  /\ st' = [st EXCEPT ![p] = s]
  /\ backupKey' = [backupKey EXCEPT ![p] = k]
  /\ UNCHANGED <<result, opMu, op>>

Record(c) == trace' = Append(trace, c)

\* variant: the registry lookup accepts every name
InRegistryAny(game) == TRUE

\* ad, ok := c.adapters[game]
InRegistry(game) == game \in Games

\* ------------------------------------------------- ControllerService.Start
\* variant: Start never retires the active game
NeedsRetireNever(s, game) == FALSE

\* another game is active and must be retired first
NeedsRetire(s, game) == s.ActiveGame # NoGame /\ s.ActiveGame # Type(game)

\* variant: the remembered source is ignored
HasSourceNever(s, g) == FALSE

\* sourceURL := st.SourceByGame[g]; sourceURL != ""
HasSource(s, g) == Lookup(s.SourceByGame, g) # EmptyStr

\* variant: the cached reference is used without the missing/blank test
NoCachedBackupNever(s, game) == FALSE

\* backupKey, ok := st.LastBackups[game]; !ok || TrimSpace(backupKey) == ""
NoCachedBackup(s, game) ==
  ~HasKey(s.LastBackups, game) \/ TrimSpace(Lookup(s.LastBackups, game)) = EmptyStr

\* variant: Start records the active game but leaves the phase as it was
StartDoneStalePhase(s, game) == [s EXCEPT !.ActiveGame = Type(game)]

\* the record Start writes before it returns successfully
StartDone(s, game) == [s EXCEPT !.ActiveGame = Type(game), !.Phase = "running"]

\* variant: a cached backup is restored even after the data was seeded
StartAfterSeedRestores(s, game) ==
  IF NoCachedBackup(s, game) THEN "start_ad_start" ELSE "start_restore"

\* after a successful SeedFromSource the else branch (backup resolution and
\* Restore) is skipped and Start goes on to ad.Start
StartAfterSeed(s, game) == "start_ad_start"

\* registry lookup, state.Get, and the test for another active game
StartEntry(p) ==
  /\ pc[p] = "entry" /\ op[p].name = "Start"
  /\ IF ~InRegistry(op[p].game)
     THEN /\ Finish(p, Err(ErrUnknownGameType))
          /\ UNCHANGED snap
     ELSE LET s == ensureStateMaps(Get) IN
          /\ snap' = store
          /\ IF NeedsRetire(s, op[p].game)
             THEN IF adapterByType(s.ActiveGame)[1]
                  THEN Goto(p, "start_prev_stop", s, EmptyStr)
                  ELSE Finish(p, Err(ErrUnknownGameType))
             ELSE Goto(p, "start_prepare", s, EmptyStr)
  /\ UNCHANGED <<store, adapters, call, trace, status, ops, waitVars, mcVars, memVars>>

\* previous.Stop(ctx)
StartPrevStop(p) ==
  /\ pc[p] = "start_prev_stop"
  /\ LET prev == adapterByType(st[p].ActiveGame)[2] IN
     \E ok \in Outcomes(prev) :
       /\ adapters' = AdapterStop(adapters, prev, ok)
       /\ Record(Call(prev, "Stop", ok, EmptyStr))
       /\ IF ok
          THEN Goto(p, "start_prev_backup", st[p], backupKey[p])
          ELSE Finish(p, AdErr(prev, "Stop"))
  /\ UNCHANGED <<store, call, snap, status, ops, waitVars, mcVars, memVars>>

\* previous.Backup(ctx); st.LastBackups[active] = backupKey
StartPrevBackup(p) ==
  /\ pc[p] = "start_prev_backup"
  /\ LET prev == adapterByType(st[p].ActiveGame)[2] IN
     \E r \in BackupResults(prev) :
       /\ adapters' = AdapterBackup(adapters, prev, r[1], r[2])
       /\ Record(Call(prev, "Backup", r[1], r[2]))
       /\ IF r[1]
          THEN LET s == [st[p] EXCEPT !.LastBackups = MapSet(@, st[p].ActiveGame, r[2])] IN
               IF HasSource(s, s.ActiveGame)
               THEN Goto(p, "start_prev_sync", s, backupKey[p])
               ELSE Goto(p, "start_prepare", s, backupKey[p])
          ELSE Finish(p, AdErr(prev, "Backup"))
  /\ UNCHANGED <<store, call, snap, status, ops, waitVars, mcVars, memVars>>

\* variant: a retirement that fails after its backup saves the local record
RetireFailedSaves(cur, s) == Set(s)

\* the stored record when Start returns the error of a retirement step: the
\* local record s, which has the new backup reference, is dropped
RetireFailed(cur, s) == cur

\* previous.SyncToSource(ctx, sourceURL)
StartPrevSync(p) ==
  /\ pc[p] = "start_prev_sync"
  /\ LET prev == adapterByType(st[p].ActiveGame)[2] IN
     \E ok \in Outcomes(prev) :
       /\ Record(Call(prev, "SyncToSource", ok, Lookup(st[p].SourceByGame, st[p].ActiveGame)))
       /\ IF ok
          THEN /\ Goto(p, "start_prepare", st[p], backupKey[p])
               /\ UNCHANGED store
          ELSE /\ Finish(p, AdErr(prev, "SyncToSource"))
               /\ store' = RetireFailed(store, st[p])
  /\ UNCHANGED <<adapters, call, snap, status, ops, waitVars, mcVars, memVars>>

\* the choice between seeding from dataURL and restoring a backup
StartPrepare(p) ==
  /\ pc[p] = "start_prepare"
  /\ LET game == op[p].game
         dataURL == TrimSpace(op[p].dataURL)
     IN IF dataURL # EmptyStr
        THEN Goto(p, "start_seed", st[p], backupKey[p])
        ELSE IF NoCachedBackup(st[p], game)
             THEN IF game \notin Providers
                  THEN Finish(p, Err(ErrNoBackupForGame))
                  ELSE Goto(p, "start_latest", st[p], backupKey[p])
             ELSE Goto(p, "start_restore", st[p], Lookup(st[p].LastBackups, game))
  /\ UNCHANGED <<store, adapters, call, trace, snap, status, ops, waitVars, mcVars, memVars>>

\* ad.SeedFromSource(ctx, dataURL); st.SourceByGame[game] = dataURL
StartSeed(p) ==
  /\ pc[p] = "start_seed"
  /\ LET game == op[p].game
         dataURL == TrimSpace(op[p].dataURL)
     IN \E ok \in Outcomes(game) :
          /\ Record(Call(game, "SeedFromSource", ok, dataURL))
          /\ IF ok
             THEN Goto(p, StartAfterSeed(st[p], game),
                       [st[p] EXCEPT !.SourceByGame = MapSet(@, game, dataURL)],
                       backupKey[p])
             ELSE Finish(p, AdErr(game, "SeedFromSource"))
  /\ UNCHANGED <<store, adapters, call, snap, status, ops, waitVars, mcVars, memVars>>

\* provider.LatestBackup(ctx); st.LastBackups[game] = backupKey
StartLatest(p) ==
  /\ pc[p] = "start_latest"
  /\ LET game == op[p].game IN
     \E r \in LatestBackupResults(adapters, game) :
       /\ Record(Call(game, "LatestBackup", r[1], r[2]))
       /\ adapters' = IF r[1] THEN [adapters EXCEPT ![game].lastBackup = r[2]] ELSE adapters
       /\ IF ~r[1] \/ TrimSpace(r[2]) = EmptyStr
          THEN Finish(p, Err(ErrNoBackupForGame))
          ELSE Goto(p, "start_restore",
                    [st[p] EXCEPT !.LastBackups = MapSet(@, game, r[2])], r[2])
  /\ UNCHANGED <<store, call, snap, status, ops, waitVars, mcVars, memVars>>

\* ad.Restore(ctx, backupKey)
StartRestore(p) ==
  /\ pc[p] = "start_restore"
  /\ LET game == op[p].game IN
     \E ok \in Outcomes(game) :
       /\ adapters' = AdapterRestore(adapters, game, ok, backupKey[p])
       /\ Record(Call(game, "Restore", ok, backupKey[p]))
       /\ IF ok
          THEN Goto(p, "start_ad_start", st[p], backupKey[p])
          ELSE Finish(p, AdErr(game, "Restore"))
  /\ UNCHANGED <<store, call, snap, status, ops, waitVars, mcVars, memVars>>

\* ad.Start(ctx); on success the record is written and the call returns
StartAdStart(p) ==
  /\ pc[p] = "start_ad_start"
  /\ LET game == op[p].game IN
     \E ok \in Outcomes(game) :
       /\ adapters' = AdapterStart(adapters, game, ok)
       /\ Record(Call(game, "Start", ok, EmptyStr))
       /\ IF ok
          THEN /\ store' = Set(StartDone(st[p], game))
               /\ Finish(p, Ok)
          ELSE /\ Finish(p, AdErr(game, "Start"))
               /\ UNCHANGED store
  /\ UNCHANGED <<call, snap, status, ops, waitVars, mcVars, memVars>>

Start(p) ==
  \/ StartEntry(p) \/ StartPrevStop(p) \/ StartPrevBackup(p) \/ StartPrevSync(p)
  \/ StartPrepare(p) \/ StartSeed(p) \/ StartLatest(p) \/ StartRestore(p)
  \/ StartAdStart(p)

\* -------------------------------------------------- ControllerService.Stop
\* variant: Stop does not test for an active game
NoActiveNever(s) == FALSE

\* st.ActiveGame == ""
NoActive(s) == s.ActiveGame = NoGame

\* state.Get, the active-game test and adapterByType
StopEntry(p) ==
  /\ pc[p] = "entry" /\ op[p].name = "Stop"
  /\ LET s == ensureStateMaps(Get) IN
     /\ snap' = store
     /\ IF NoActive(s)
        THEN Finish(p, Err(ErrNoActiveGame))
        ELSE IF adapterByType(s.ActiveGame)[1]
             THEN Goto(p, "stop_stop", s, EmptyStr)
             ELSE Finish(p, Err(ErrUnknownGameType))
  /\ UNCHANGED <<store, adapters, call, trace, status, ops, waitVars, mcVars, memVars>>

\* ad.Stop(ctx)
StopStop(p) ==
  /\ pc[p] = "stop_stop"
  /\ LET ad == adapterByType(st[p].ActiveGame)[2] IN
     \E ok \in Outcomes(ad) :
       /\ adapters' = AdapterStop(adapters, ad, ok)
       /\ Record(Call(ad, "Stop", ok, EmptyStr))
       /\ IF ok
          THEN Goto(p, "stop_backup", st[p], backupKey[p])
          ELSE Finish(p, AdErr(ad, "Stop"))
  /\ UNCHANGED <<store, call, snap, status, ops, waitVars, mcVars, memVars>>

\* variant: Stop marks the record stopped but keeps the active game
StopFinalKeepsActive(s) == [s EXCEPT !.Phase = "stopped"]

\* the record Stop writes before it returns successfully
StopFinal(s) == [s EXCEPT !.ActiveGame = NoGame, !.Phase = "stopped"]

\* ad.Backup(ctx); st.LastBackups[gameKey] = backupKey; without a remembered
\* source the record is written and the call returns
StopBackup(p) ==
  /\ pc[p] = "stop_backup"
  /\ LET gameKey == st[p].ActiveGame
         ad == adapterByType(gameKey)[2]
     IN \E r \in BackupResults(ad) :
          /\ adapters' = AdapterBackup(adapters, ad, r[1], r[2])
          /\ Record(Call(ad, "Backup", r[1], r[2]))
          /\ IF r[1]
             THEN LET s == [st[p] EXCEPT !.LastBackups = MapSet(@, gameKey, r[2])] IN
                  IF HasSource(s, gameKey)
                  THEN /\ Goto(p, "stop_sync", s, r[2])
                       /\ UNCHANGED store
                  ELSE /\ store' = Set(StopFinal(s))
                       /\ Finish(p, StopResult(r[2], FALSE))
             ELSE /\ Finish(p, AdErr(ad, "Backup"))
                  /\ UNCHANGED store
  /\ UNCHANGED <<call, snap, status, ops, waitVars, mcVars, memVars>>

\* ad.SyncToSource(ctx, sourceURL); the record is written and the call returns
StopSync(p) ==
  /\ pc[p] = "stop_sync"
  /\ LET gameKey == st[p].ActiveGame
         ad == adapterByType(gameKey)[2]
     IN \E ok \in Outcomes(ad) :
          /\ Record(Call(ad, "SyncToSource", ok, Lookup(st[p].SourceByGame, gameKey)))
          /\ IF ok
             THEN /\ store' = Set(StopFinal(st[p]))
                  /\ Finish(p, StopResult(backupKey[p], TRUE))
             ELSE /\ Finish(p, AdErr(ad, "SyncToSource"))
                  /\ UNCHANGED store
  /\ UNCHANGED <<adapters, call, snap, status, ops, waitVars, mcVars, memVars>>

Stop(p) == StopEntry(p) \/ StopStop(p) \/ StopBackup(p) \/ StopSync(p)

\* ------------------------------------------------ ControllerService.Switch
\* variant: a failed Switch also forgets the active game
SwitchFailedClears(s) == [s EXCEPT !.Phase = "error", !.ActiveGame = NoGame]

\* variant: a failed Switch leaves the record as it stored it
SwitchFailedKeepsPhase(s) == s

\* the record Switch writes when switchWorkflow fails
SwitchFailed(s) == [s EXCEPT !.Phase = "error"]

\* variant: a successful Switch does not record the outgoing backup
SwitchDoneNoBackup(s, target, k) ==
  [s EXCEPT !.ActiveGame = Type(target), !.Phase = "running"]

\* the record Switch writes when switchWorkflow succeeds with key k
SwitchDone(s, target, k) ==
  [s EXCEPT !.LastBackups = IF s.ActiveGame # NoGame /\ TrimSpace(k) # EmptyStr
                            THEN MapSet(@, s.ActiveGame, k) ELSE @,
            !.ActiveGame = Type(target),
            !.Phase = "running"]

\* the record Switch stores before it runs switchWorkflow
SwitchBegun(s) == [s EXCEPT !.Phase = "switching"]

\* variant: Switch runs the workflow even when the target is active
AlreadyActiveNever(s, target) == FALSE

\* st.ActiveGame == target.Type()
AlreadyActive(s, target) == s.ActiveGame = Type(target)

\* variant: Switch syncs the outgoing game to its source as Stop does
SwitchAfterBackupSync(s) ==
  IF HasSource(s, s.ActiveGame) THEN "stop_sync" ELSE "switch_start"

\* switchWorkflow after a successful fromAd.Backup: straight to to.Start
SwitchAfterBackup(s) == "switch_start"

\* registry lookup, state.Get, the already-active test, and the write of
\* phase = switching
SwitchEntry(p) ==
  /\ pc[p] = "entry" /\ op[p].name = "Switch"
  /\ IF ~InRegistry(op[p].game)
     THEN /\ Finish(p, Err(ErrUnknownGameType))
          /\ UNCHANGED <<store, snap>>
     ELSE LET s == ensureStateMaps(Get) IN
          /\ snap' = store
          /\ IF AlreadyActive(s, op[p].game)
             THEN /\ Finish(p, Ok)
                  /\ UNCHANGED store
             ELSE /\ store' = Set(SwitchBegun(s))
                  /\ Goto(p, "switch_workflow", SwitchBegun(s), EmptyStr)
  /\ UNCHANGED <<adapters, call, trace, status, ops, waitVars, mcVars, memVars>>

\* switchWorkflow: from != "" and adapterByType(from)
SwitchWorkflow(p) ==
  /\ pc[p] = "switch_workflow"
  /\ LET from == st[p].ActiveGame IN
     IF from # NoGame
     THEN IF adapterByType(from)[1]
          THEN Goto(p, "switch_stop", st[p], backupKey[p]) /\ UNCHANGED store
          ELSE /\ store' = Set(SwitchFailed(st[p]))
               /\ Finish(p, Err(ErrUnknownGameType))
     ELSE Goto(p, "switch_start", st[p], backupKey[p]) /\ UNCHANGED store
  /\ UNCHANGED <<adapters, call, trace, snap, status, ops, waitVars, mcVars, memVars>>

\* switchWorkflow: fromAd.Stop(ctx)
SwitchStop(p) ==
  /\ pc[p] = "switch_stop"
  /\ LET fromAd == adapterByType(st[p].ActiveGame)[2] IN
     \E ok \in Outcomes(fromAd) :
       /\ adapters' = AdapterStop(adapters, fromAd, ok)
       /\ Record(Call(fromAd, "Stop", ok, EmptyStr))
       /\ IF ok
          THEN /\ Goto(p, "switch_backup", st[p], backupKey[p])
               /\ UNCHANGED store
          ELSE /\ store' = Set(SwitchFailed(st[p]))
               /\ Finish(p, AdErr(fromAd, "Stop"))
  /\ UNCHANGED <<call, snap, status, ops, waitVars, mcVars, memVars>>

\* switchWorkflow: backupKey, err = fromAd.Backup(ctx)
SwitchBackup(p) ==
  /\ pc[p] = "switch_backup"
  /\ LET fromAd == adapterByType(st[p].ActiveGame)[2] IN
     \E r \in BackupResults(fromAd) :
       /\ adapters' = AdapterBackup(adapters, fromAd, r[1], r[2])
       /\ Record(Call(fromAd, "Backup", r[1], r[2]))
       /\ IF r[1]
          THEN /\ Goto(p, SwitchAfterBackup(st[p]), st[p], r[2])
               /\ UNCHANGED store
          ELSE /\ store' = Set(SwitchFailed(st[p]))
               /\ Finish(p, AdErr(fromAd, "Backup"))
  /\ UNCHANGED <<call, snap, status, ops, waitVars, mcVars, memVars>>

\* switchWorkflow: to.Start(ctx); then Switch writes the record and returns
SwitchStart(p) ==
  /\ pc[p] = "switch_start"
  /\ LET target == op[p].game IN
     \E ok \in Outcomes(target) :
       /\ adapters' = AdapterStart(adapters, target, ok)
       /\ Record(Call(target, "Start", ok, EmptyStr))
       /\ IF ok
          THEN /\ store' = Set(SwitchDone(st[p], target, backupKey[p]))
               /\ Finish(p, Ok)
          ELSE /\ store' = Set(SwitchFailed(st[p]))
               /\ Finish(p, AdErr(target, "Start"))
  /\ UNCHANGED <<call, snap, status, ops, waitVars, mcVars, memVars>>

Switch(p) ==
  \/ SwitchEntry(p) \/ SwitchWorkflow(p) \/ SwitchStop(p) \/ SwitchBackup(p)
  \/ SwitchStart(p)

\* ------------------------------- ControllerService.Backup and .Command
\* variant: Backup and Command always go to the first registered adapter
DelegateAdapterFirst(s) == <<TRUE, GameMinecraft>>

\* ad, err := c.adapterByType(st.ActiveGame)
DelegateAdapter(s) == adapterByType(s.ActiveGame)

\* state.Get, the active-game test and adapterByType of Backup and Command
DelegateEntry(p) ==
  /\ pc[p] = "entry" /\ op[p].name \in {"Backup", "Command"}
  /\ LET s == Get IN
     /\ snap' = store
     /\ IF s.ActiveGame = NoGame
        THEN Finish(p, Err(ErrNoActiveGame))
        ELSE IF DelegateAdapter(s)[1]
             THEN Goto(p, "delegate", s, EmptyStr)
             ELSE Finish(p, Err(ErrUnknownGameType))
  /\ UNCHANGED <<store, adapters, call, trace, status, ops, waitVars, mcVars, memVars>>

\* return ad.Backup(ctx)
BackupCall(p) ==
  /\ pc[p] = "delegate" /\ op[p].name = "Backup"
  /\ LET ad == DelegateAdapter(st[p])[2] IN
     \E r \in BackupResults(ad) :
       /\ adapters' = AdapterBackup(adapters, ad, r[1], r[2])
       /\ Record(Call(ad, "Backup", r[1], r[2]))
       /\ IF r[1] THEN Finish(p, OkVal(r[2])) ELSE Finish(p, AdErr(ad, "Backup"))
  /\ UNCHANGED <<store, call, snap, status, ops, waitVars, mcVars, memVars>>

\* return ad.SendCommand(ctx, cmd)
CommandCall(p) ==
  /\ pc[p] = "delegate" /\ op[p].name = "Command"
  /\ LET ad == DelegateAdapter(st[p])[2] IN
     \E ok \in SendCommandOutcomes(ad) :
       /\ Record(Call(ad, "SendCommand", ok, EmptyStr))
       /\ IF ok THEN Finish(p, Ok) ELSE Finish(p, AdErr(ad, "SendCommand"))
  /\ UNCHANGED <<store, adapters, call, snap, status, ops, waitVars, mcVars, memVars>>

Delegate(p) == DelegateEntry(p) \/ BackupCall(p) \/ CommandCall(p)

\* ------------------------------------------------ ControllerService.Status
\* variant: the phase is read from the store again when the result is built
StatusOutRereads(s) ==
  [returned |-> TRUE, err |-> FALSE, active_game |-> s.ActiveGame,
   phase |-> store.Phase, last_backups |-> s.LastBackups,
   source_by_game |-> s.SourceByGame, updated_at |-> s.UpdatedAt,
   game_status |-> NoGameStatus, adapter_call |-> "none"]

\* the map Status builds from the record it read, and the nil error
StatusOut(s) ==
  [returned |-> TRUE, err |-> FALSE, active_game |-> s.ActiveGame,
   phase |-> s.Phase, last_backups |-> s.LastBackups,
   source_by_game |-> s.SourceByGame, updated_at |-> s.UpdatedAt,
   game_status |-> NoGameStatus, adapter_call |-> "none"]

\* variant: a failing adapter Status fails the call and drops the record
StatusMergeFails(out, ok, v) ==
  IF ok THEN [out EXCEPT !.game_status = v, !.adapter_call = "ok"]
  ELSE [NoStatusYet EXCEPT !.returned = TRUE, !.err = TRUE, !.adapter_call = "failed"]

\* adSt, err2 := ad.Status(ctx); if err2 == nil { out["game_status"] = adSt }
StatusMerge(out, ok, v) ==
  IF ok THEN [out EXCEPT !.game_status = v, !.adapter_call = "ok"]
  ELSE [out EXCEPT !.adapter_call = "failed"]

\* c.state.Get and the construction of out; opMu is not taken. Without an
\* active game (or without an adapter for it) Status returns at once
StatusGet(p) ==
  /\ pc[p] = "idle"
  /\ ops < MaxOps
  /\ ops' = ops + 1
  /\ LET s == ensureStateMaps(Get) IN
     IF s.ActiveGame # NoGame /\ adapterByType(s.ActiveGame)[1]
     THEN /\ pc' = [pc EXCEPT ![p] = "status_ad"]
          /\ op' = [op EXCEPT ![p] = [NoOp EXCEPT !.name = "Status"]]
          /\ st' = [st EXCEPT ![p] = s]
          /\ UNCHANGED status
     ELSE /\ status' = StatusOut(s)
          /\ UNCHANGED <<pc, op, st>>
  /\ UNCHANGED <<store, opMu, adapters, backupKey, call, trace, result, snap, waitVars, mcVars, memVars>>

\* ad.Status(ctx), the merge of its result, and the return
StatusAd(p) ==
  /\ pc[p] = "status_ad"
  /\ LET ad == adapterByType(st[p].ActiveGame)[2] IN
     \E ok \in StatusOutcomes(ad) :
       status' = StatusMerge(StatusOut(st[p]), ok, AdapterStatus(adapters, ad))
  /\ pc' = [pc EXCEPT ![p] = "idle"]
  /\ op' = [op EXCEPT ![p] = NoOp]
  /\ st' = [st EXCEPT ![p] = NewMemoryState]
  /\ UNCHANGED <<store, opMu, adapters, backupKey, call, trace, result, snap, ops, waitVars, mcVars, memVars>>

Status(p) == StatusGet(p) \/ StatusAd(p)

Next ==
  \E p \in Procs :
    \/ Invoke(p) \/ Acquire(p)
    \/ Start(p) \/ Stop(p) \/ Switch(p) \/ Delegate(p)
    \/ Status(p)

Spec == Init /\ [][Next]_vars

\* every adapter call returns, so a handler that holds opMu takes its next
\* step; sync.Mutex hands the lock to a waiter that has been passed over
\* (starvation mode), so a waiter that can lock again and again does lock;
\* a Status call likewise gets its adapter's answer
Fairness ==
  \A p \in Procs :
    /\ WF_vars(Start(p) \/ Stop(p) \/ Switch(p) \/ Delegate(p))
    /\ WF_vars(StatusAd(p))
    /\ SF_vars(Acquire(p))

\* the runs of Spec with at most MaxLiveOps calls
LiveNext == Next /\ ops' <= MaxLiveOps

LiveSpec == Init /\ [][LiveNext]_vars /\ Fairness

\* ------------------------------------------ Client.WaitServiceStable
\* the argument check, the default timeout, context.WithTimeout and
\* time.NewTicker; the first DescribeService call is issued at once
WaitCall ==
  /\ wpc = "idle"
  /\ \E cluster \in ServiceNames, service \in ServiceNames, timeout \in Timeouts :
       IF TrimSpace(cluster) = EmptyStr \/ TrimSpace(service) = EmptyStr
       THEN /\ wpc' = "done"
            /\ wres' = WaitInvalid
            /\ UNCHANGED deadline
       ELSE /\ wpc' = "describe"
            /\ deadline' = IF timeout <= 0 THEN defaultTimeout ELSE timeout
            /\ UNCHANGED wres
  /\ UNCHANGED <<now, tick, ctxErr, last, stableSeen>>
  /\ UNCHANGED <<ctlVars, mcVars, memVars>>

\* the time of the next tick after t
NextTickAt(t) == ((t \div defaultWaitPoll) + 1) * defaultWaitPoll

\* time passes up to the next tick or the deadline, whichever is first: a
\* tick is put into ticker.C unless one is still waiting there, and at the
\* deadline deadlineCtx is done
AdvanceTime ==
  /\ wpc \in {"describe", "select"}
  /\ now < deadline
  /\ LET t == IF NextTickAt(now) < deadline THEN NextTickAt(now) ELSE deadline IN
     /\ now' = t
     /\ tick' = IF t % defaultWaitPoll = 0 THEN 1 ELSE tick
     /\ ctxErr' = IF t = deadline /\ ctxErr = "none" THEN "deadline" ELSE ctxErr
  /\ UNCHANGED <<wpc, deadline, last, stableSeen, wres>>
  /\ UNCHANGED <<ctlVars, mcVars, memVars>>

\* the caller's context is cancelled
CancelCtx ==
  /\ wpc \in {"describe", "select"}
  /\ ctxErr = "none"
  /\ ctxErr' = "canceled"
  /\ UNCHANGED <<wpc, now, deadline, tick, last, stableSeen, wres>>
  /\ UNCHANGED <<ctlVars, mcVars, memVars>>

\* variant: a failed describe call is retried at the next tick
OnDescribeRetries(r) ==
  IF r.err # "" THEN <<"select", WaitNone>>
  ELSE IF isStable(r.state) THEN <<"done", WaitOk>>
  ELSE <<"select", WaitNone>>

\* what the loop does with the result of DescribeService
OnDescribe(r) ==
  IF r.err # "" THEN <<"done", WaitDescribeErr(r.err)>>
  ELSE IF isStable(r.state) THEN <<"done", WaitOk>>
  ELSE <<"select", WaitNone>>

\* variant: the request does not watch its context
DescribeAnswersAny(e) == DescribeResults

\* what a DescribeService call can return under a context whose Err() is e:
\* the request is bound to the context (http.NewRequestWithContext), so it
\* fails with the context's error once the context is done
DescribeAnswers(e) ==
  IF e # "none" THEN {DescribeFailed(e)} ELSE DescribeResults

\* DescribeService(deadlineCtx, ...) returns: with the context's error once
\* deadlineCtx is done, else with what the service answers
DescribeReturn ==
  /\ wpc = "describe"
  /\ \E r \in DescribeAnswers(ctxErr) :
       /\ last' = r
       /\ stableSeen' = (stableSeen \/ (r.err = "" /\ isStable(r.state)))
       /\ wpc' = OnDescribe(r)[1]
       /\ wres' = OnDescribe(r)[2]
  /\ UNCHANGED <<now, deadline, tick, ctxErr>>
  /\ UNCHANGED <<ctlVars, mcVars, memVars>>

\* variant: the wait gives up silently at the deadline
SelectDoneNil(e) == WaitOk

\* case <-deadlineCtx.Done()
SelectDone(e) == WaitTimeoutErr(e)

\* the select: it returns when deadlineCtx is done, it polls again when a
\* tick is waiting, and it takes either when both are ready
Select ==
  /\ wpc = "select"
  /\ \/ /\ ctxErr # "none"
        /\ wpc' = "done"
        /\ wres' = SelectDone(ctxErr)
        /\ UNCHANGED tick
     \/ /\ tick = 1
        /\ tick' = 0
        /\ wpc' = "describe"
        /\ UNCHANGED wres
  /\ UNCHANGED <<now, deadline, ctxErr, last, stableSeen>>
  /\ UNCHANGED <<ctlVars, mcVars, memVars>>

WaitNext == WaitCall \/ AdvanceTime \/ CancelCtx \/ DescribeReturn \/ Select

\* time passes, describe calls return and the select is served
WaitSpec == Init /\ [][WaitNext]_vars /\ WF_vars(WaitNext)

\* ----------------------------------------- the minecraft adapter at work
\* a request sent to the store
Request(method, bucket, key) == [method |-> method, address |-> Address(bucket, key)]
\* a.s3Configured(): the region always has a default
s3Configured(c) == c.bucket # <<>>
\* the client's check of its arguments, made before any request is sent
AddressOk(bucket, key) ==
  Address(bucket, key)[1] # <<>> /\ Address(bucket, key)[2] # <<>>

\* NewAdapter: the configuration is read from the environment
NewAdapterFromEnv ==
  /\ apc = "new"
  /\ cfg' \in Configs
  /\ apc' = "idle"
  /\ UNCHANGED <<fs, s3, mc, acall, ares, tmp, pre, net, saved>>
  /\ UNCHANGED <<acalls, ctlVars, waitVars, memVars>>

\* a method is called: what it leaves behind of the call before is reset
ACall(name, arg) ==
  /\ apc = "idle"
  /\ acalls < MaxCalls
  /\ acalls' = acalls + 1
  /\ acall' = [name |-> name, arg |-> arg]
  /\ pre' = fs
  /\ net' = <<>>

\* a method returns
AReturn(res) ==
  /\ apc' = "idle"
  /\ ares' = res
  /\ tmp' = NoTmp

\* the game server, stopped since, has rewritten the data directory
ServerWrites ==
  /\ apc = "idle"
  /\ acalls < MaxCalls
  /\ acalls' = acalls + 1
  /\ \E t \in Trees : fs' = Graft(fs, DataDir, t)
  /\ fs' # fs
  /\ acall' = NoACall /\ ares' = ANone /\ pre' = fs' /\ net' = <<>>
  /\ UNCHANGED <<s3, cfg, mc, apc, tmp, saved>>
  /\ UNCHANGED <<ctlVars, waitVars, memVars>>

\* os.CreateTemp and a.awsClient, which can fail until a client is cached
TempAndClient(next) ==
  \/ /\ apc' = next
     /\ mc' = [mc EXCEPT !.aws = TRUE]
     /\ UNCHANGED <<ares, tmp>>
  \/ /\ AReturn(AErr("create temp file"))
     /\ UNCHANGED mc
  \/ /\ ~mc.aws
     /\ AReturn(AErr("aws client"))
     /\ UNCHANGED mc

\* --------------------------------------------------------- Adapter.Restore
\* the checks Restore makes before it prepares the download
RestoreChecks(c, backupKey0) ==
  IF ~s3Configured(c) THEN "s3 backup not configured"
  ELSE IF TrimSpace(backupKey0) = <<>> THEN "empty backup key"
  ELSE parseBackupRef(c.bucket, backupKey0).err

RestoreCall ==
  /\ \E ref \in RestoreRefs :
       /\ ACall("Restore", ref)
       /\ IF RestoreChecks(cfg, ref) # ""
          THEN AReturn(AErr(RestoreChecks(cfg, ref)))
          ELSE /\ apc' = "r_temp"
               /\ tmp' = [NoTmp EXCEPT !.bucket = parseBackupRef(cfg.bucket, ref).bucket,
                                       !.key = parseBackupRef(cfg.bucket, ref).key]
               /\ ares' = ANone
  /\ UNCHANGED <<fs, s3, cfg, mc, saved>>
  /\ UNCHANGED <<ctlVars, waitVars, memVars>>

RestoreTemp ==
  /\ apc = "r_temp"
  /\ TempAndClient("r_download")
  /\ UNCHANGED <<fs, s3, cfg, acall, pre, net, saved>>
  /\ UNCHANGED <<acalls, ctlVars, waitVars, memVars>>

\* awsClient.DownloadFile: the object is fetched into the temporary file
RestoreDownload ==
  /\ apc = "r_download"
  /\ IF ~AddressOk(tmp.bucket, tmp.key)
     THEN /\ AReturn(AErr("download backup from s3"))
          /\ UNCHANGED net
     ELSE /\ net' = Append(net, Request("get", tmp.bucket, tmp.key))
          /\ \/ /\ Address(tmp.bucket, tmp.key) \in DOMAIN s3
                /\ tmp' = [tmp EXCEPT !.zip = s3[Address(tmp.bucket, tmp.key)]]
                /\ apc' = "r_reset"
                /\ UNCHANGED ares
             \/ AReturn(AErr("download backup from s3"))
  /\ UNCHANGED <<fs, s3, cfg, mc, acall, pre, saved>>
  /\ UNCHANGED <<acalls, ctlVars, waitVars, memVars>>

\* resetDirectory(a.dataDir)
RestoreReset ==
  /\ apc = "r_reset"
  /\ \E o \in resetDirectory(fs, DataDir, cfg.privileged) :
       /\ fs' = o.fs
       /\ IF o.ok
          THEN /\ apc' = "r_unzip"
               /\ tmp' = [tmp EXCEPT !.zi = 1]
               /\ UNCHANGED ares
          ELSE AReturn(AErr("reset directory"))
  /\ UNCHANGED <<s3, cfg, mc, acall, pre, net, saved>>
  /\ UNCHANGED <<acalls, ctlVars, waitVars, memVars>>

\* unzipToDirectory, one entry at a step, and the end of Restore
RestoreUnzip ==
  /\ apc = "r_unzip"
  /\ IF ~tmp.zip.complete
     THEN /\ AReturn(AErr("open zip"))
          /\ UNCHANGED <<fs, mc>>
     ELSE IF tmp.zi > Len(tmp.zip.entries)
     THEN /\ mc' = [mc EXCEPT !.lastBackup = Uri(tmp.bucket, tmp.key)]
          /\ AReturn(AOk(<<>>))
          /\ UNCHANGED fs
     ELSE LET o == unzipEntry(fs, DataDir, tmp.zip.entries[tmp.zi], cfg.privileged) IN
          /\ fs' = o.fs
          /\ IF o.err # ""
             THEN AReturn(AErr(o.err))
             ELSE /\ tmp' = [tmp EXCEPT !.zi = @ + 1]
                  /\ UNCHANGED <<apc, ares>>
          /\ UNCHANGED mc
  /\ UNCHANGED <<s3, cfg, acall, pre, net, saved>>
  /\ UNCHANGED <<acalls, ctlVars, waitVars, memVars>>

Restore == RestoreCall \/ RestoreTemp \/ RestoreDownload \/ RestoreReset \/ RestoreUnzip

\* ---------------------------------------------------------- Adapter.Backup
\* the index of the latest time at which a snapshot was uploaded
LastUpload ==
  LET done == {i \in 1..Len(Timestamps) :
                 Address(Bucket, backupKeyAt(Timestamps[i])) \in DOMAIN s3}
  IN IF done = {} THEN 1 ELSE CHOOSE i \in done : \A j \in done : j <= i

\* s3Configured, os.MkdirAll(a.dataDir) and os.CreateTemp
BackupBegin ==
  /\ ACall("Backup", <<>>)
  /\ IF ~s3Configured(cfg)
     THEN /\ AReturn(AErr("s3 backup not configured"))
          /\ UNCHANGED fs
     ELSE LET made == MkdirAll(fs, DataDir, Dir, cfg.privileged) IN
          /\ fs' = made.fs
          /\ IF ~made.ok THEN AReturn(AErr("prepare data dir"))
             ELSE \/ /\ apc' = "b_zip"
                     /\ ares' = ANone
                     /\ UNCHANGED tmp
                  \/ AReturn(AErr("create temp backup"))
  /\ UNCHANGED <<s3, cfg, mc, saved>>
  /\ UNCHANGED <<ctlVars, waitVars, memVars>>

\* zipDirectory(a.dataDir, tmpZipPath)
BackupZip ==
  /\ apc = "b_zip"
  /\ \E z \in ZipOutcomes(fs, DataDir) :
       IF z.ok
       THEN /\ tmp' = [tmp EXCEPT !.zip = z.zip]
            /\ apc' = "b_client"
            /\ UNCHANGED ares
       ELSE AReturn(AErr("walk source dir for zip"))
  /\ UNCHANGED <<fs, s3, cfg, mc, acall, pre, net, saved>>
  /\ UNCHANGED <<acalls, ctlVars, waitVars, memVars>>

\* a.backupKey() at the time of the call, and a.awsClient
BackupClient ==
  /\ apc = "b_client"
  /\ \/ \E i \in LastUpload..Len(Timestamps) :
          /\ tmp' = [tmp EXCEPT !.bucket = cfg.bucket, !.key = backupKeyAt(Timestamps[i])]
          /\ mc' = [mc EXCEPT !.aws = TRUE]
          /\ apc' = "b_upload"
          /\ UNCHANGED ares
     \/ /\ ~mc.aws
        /\ AReturn(AErr("aws client"))
        /\ UNCHANGED mc
  /\ UNCHANGED <<fs, s3, cfg, acall, pre, net, saved>>
  /\ UNCHANGED <<acalls, ctlVars, waitVars, memVars>>

\* variant: the error of UploadFile is ignored
AfterUploadAlways(ok) == "b_marker"

\* Backup goes on to the marker only when UploadFile returned no error
AfterUpload(ok) == IF ok THEN "b_marker" ELSE "return"

\* awsClient.UploadFile(ctx, a.bucket, key, tmpZipPath)
BackupUpload ==
  /\ apc = "b_upload"
  /\ net' = Append(net, Request("put", tmp.bucket, tmp.key))
  /\ \E ok \in BOOLEAN :
       /\ s3' = IF ok THEN Put(s3, Address(tmp.bucket, tmp.key), tmp.zip) ELSE s3
       /\ IF AfterUpload(ok) = "b_marker"
          THEN /\ apc' = "b_marker"
               /\ UNCHANGED <<ares, tmp>>
          ELSE AReturn(AErr("upload backup to s3"))
  /\ UNCHANGED <<fs, cfg, mc, acall, pre, saved>>
  /\ UNCHANGED <<acalls, ctlVars, waitVars, memVars>>

\* awsClient.PutString(ctx, a.bucket, a.latestBackupKey(), key) and the end
\* of Backup
BackupMarker ==
  /\ apc = "b_marker"
  /\ net' = Append(net, Request("put", tmp.bucket, latestBackupKey))
  /\ \/ /\ s3' = Put(s3, Address(tmp.bucket, latestBackupKey), Text(tmp.key))
        /\ mc' = [mc EXCEPT !.lastBackup = Uri(tmp.bucket, tmp.key)]
        /\ saved' = [ref |-> Uri(tmp.bucket, tmp.key), tree |-> Tree(fs, DataDir)]
        /\ AReturn(AOk(Uri(tmp.bucket, tmp.key)))
     \/ /\ AReturn(AErr("upload latest marker"))
        /\ UNCHANGED <<s3, mc, saved>>
  /\ UNCHANGED <<fs, cfg, acall, pre>>
  /\ UNCHANGED <<acalls, ctlVars, waitVars, memVars>>

BackupSteps == BackupBegin \/ BackupZip \/ BackupClient \/ BackupUpload \/ BackupMarker

\* -------------------------------------------------- Adapter.SeedFromSource
\* the checks of the locator, and os.MkdirTemp
SeedCall ==
  /\ \E sourceURL \in SourceURLs :
       /\ ACall("SeedFromSource", sourceURL)
       /\ IF TrimSpace(sourceURL) = <<>>
          THEN AReturn(AErr("source url is required"))
          ELSE IF ~withGitToken(cfg.gitToken, parseSourceURL(sourceURL).repoURL)
          THEN AReturn(AErr("invalid repository url"))
          ELSE \/ /\ apc' = "s_clone"
                  /\ ares' = ANone
                  /\ UNCHANGED tmp
               \/ AReturn(AErr("create temp seed dir"))
  /\ UNCHANGED <<fs, s3, cfg, mc, saved>>
  /\ UNCHANGED <<ctlVars, waitVars, memVars>>

\* git clone --depth 1 --branch repoRef authURL repoDir
SeedClone ==
  /\ apc = "s_clone"
  /\ LET src == parseSourceURL(acall.arg) IN
     \/ /\ <<src.repoURL, src.ref>> \in DOMAIN Repos
        /\ tmp' = [tmp EXCEPT !.repo = Repos[<<src.repoURL, src.ref>>],
                              !.path = Elems(src.path)]
        /\ apc' = "s_stat"
        /\ UNCHANGED ares
     \/ AReturn(AErr("git clone source"))
  /\ UNCHANGED <<fs, s3, cfg, mc, acall, pre, net, saved>>
  /\ UNCHANGED <<acalls, ctlVars, waitVars, memVars>>

\* os.Stat(srcDir)
SeedStat ==
  /\ apc = "s_stat"
  /\ IF tmp.path = <<>> \/ Exists(tmp.repo, tmp.path)
     THEN /\ apc' = "s_reset"
          /\ UNCHANGED <<ares, tmp>>
     ELSE AReturn(AErr("source path not found in repo"))
  /\ UNCHANGED <<fs, s3, cfg, mc, acall, pre, net, saved>>
  /\ UNCHANGED <<acalls, ctlVars, waitVars, memVars>>

\* resetDirectory(a.dataDir)
SeedReset ==
  /\ apc = "s_reset"
  /\ \E o \in resetDirectory(fs, DataDir, cfg.privileged) :
       /\ fs' = o.fs
       /\ IF o.ok
          THEN /\ apc' = "s_copy"
               /\ UNCHANGED <<ares, tmp>>
          ELSE AReturn(AErr("reset directory"))
  /\ UNCHANGED <<s3, cfg, mc, acall, pre, net, saved>>
  /\ UNCHANGED <<acalls, ctlVars, waitVars, memVars>>

\* copyDirectoryContents(srcDir, a.dataDir) and the end of SeedFromSource
SeedCopy ==
  /\ apc = "s_copy"
  /\ LET c == copyDirectoryContents(fs, tmp.repo, tmp.path, DataDir, cfg.privileged) IN
     /\ fs' = c.fs
     /\ IF c.ok
        THEN /\ mc' = [mc EXCEPT !.lastSource = TrimSpace(acall.arg)]
             /\ AReturn(AOk(<<>>))
        ELSE /\ AReturn(AErr("copy source"))
             /\ UNCHANGED mc
  /\ UNCHANGED <<s3, cfg, acall, pre, net, saved>>
  /\ UNCHANGED <<acalls, ctlVars, waitVars, memVars>>

SeedFromSource == SeedCall \/ SeedClone \/ SeedStat \/ SeedReset \/ SeedCopy

AdapterNext ==
  NewAdapterFromEnv \/ ServerWrites \/ Restore \/ BackupSteps \/ SeedFromSource

\* the adapter's methods called one after another, as under the
\* controller's lock, with the game server writing in between
AdapterSpec == Init /\ [][AdapterNext]_vars

\* ------------------------------------------------ memoryState and callers
\* one step of the store or of a caller
StoreStep == mops < MaxStoreOps /\ mops' = mops + 1

\* memoryState.Get: return cloneState(m.s)
memoryStateGet(c) ==
  /\ StoreStep
  /\ LET cp == cloneStateRef(heap, mstate) IN
     /\ heap' = cp.heap
     /\ held' = [held EXCEPT ![c] = cp.s]
  /\ UNCHANGED <<mstate, mclock, written>>
  /\ UNCHANGED <<ctlVars, waitVars, mcVars>>

\* memoryState.Set: s.UpdatedAt = time.Now().UTC(); m.s = cloneState(s).
\* s is the callee's copy of the struct: the caller's value keeps its fields
memoryStateSet(c) ==
  /\ StoreStep
  /\ \E t \in {mclock, mclock + 1} :
       LET cp == cloneStateRef(heap, [held[c] EXCEPT !.UpdatedAt = t]) IN
       /\ mclock' = t
       /\ heap' = cp.heap
       /\ mstate' = cp.s
       /\ written' = Content(cp.heap, cp.s)
  /\ UNCHANGED held
  /\ UNCHANGED <<ctlVars, waitVars, mcVars>>

\* a caller writes an entry of a map of the State it holds, as the handlers
\* do with st.LastBackups[...] = backupKey and st.SourceByGame[...] = dataURL
CallerWritesMap(c) ==
  /\ StoreStep
  /\ \E a \in {held[c].LastBackups, held[c].SourceByGame} \ {NilMap} :
       \E k \in Games, v \in CallerRefs :
         heap' = [heap EXCEPT ![a] = MapSet(@, k, v)]
  /\ UNCHANGED <<mstate, held, mclock, written>>
  /\ UNCHANGED <<ctlVars, waitVars, mcVars>>

\* a caller assigns the plain fields of the State it holds
CallerAssigns(c) ==
  /\ StoreStep
  /\ \E g \in Games \cup {NoGame}, ph \in CallerPhases, u \in CallerTimes :
       held' = [held EXCEPT ![c].ActiveGame = g, ![c].Phase = ph, ![c].UpdatedAt = u]
  /\ UNCHANGED <<heap, mstate, mclock, written>>
  /\ UNCHANGED <<ctlVars, waitVars, mcVars>>

StoreNext ==
  \E c \in Callers :
    memoryStateGet(c) \/ memoryStateSet(c) \/ CallerWritesMap(c) \/ CallerAssigns(c)

\* the store used by callers that keep and change the values they read and
\* wrote
StoreSpec == Init /\ [][StoreNext]_vars

\* ===================================================================== claims
\* the call that last took the lock has returned
Returned == result.kind # "none"
\* this step is the return of p's call
Returns(p) == pc[p] # "idle" /\ pc'[p] = "idle"
\* p holds the lock and is executing its handler
InWorkflow(p) == pc[p] \notin {"idle", "lock", "status_ad"}
\* indices of the calls of a trace on adapter g, and of method m
CallsOn(t, g) == {i \in 1..Len(t) : t[i].ad = g}
CallsOf(t, m) == {i \in 1..Len(t) : t[i].m = m}
\* the last call of a trace
LastCall(t) == t[Len(t)]
\* no call on an adapter other than g failed (the retirement went through)
OthersOk(t, g) == \A i \in 1..Len(t) : t[i].ad # g => t[i].ok
\* neither Restore nor Start was invoked on adapter g
NoRestoreNoStart(t, g) == \A i \in CallsOn(t, g) : t[i].m \notin {"Restore", "Start"}

\* C1: at most one adapter is in the started state: an adapter whose Start
\* succeeded stays the only running one until a Stop on it succeeds, for every
\* interleaving of Start, Stop and Switch calls with failing adapter steps.
C1_AtMostOneStarted == Cardinality({g \in Games : adapters[g].running}) <= 1

\* a Start retired the running minecraft (Stop succeeded) and then started hytale
C1_Witness ==
  /\ Returned /\ call.name = "Start" /\ result = Ok
  /\ call.game = GameHytale
  /\ \E i \in CallsOn(trace, GameMinecraft) : trace[i].m = "Stop" /\ trace[i].ok
  /\ adapters[GameHytale].running /\ ~adapters[GameMinecraft].running

\* C2: mutating operations never interleave: a request that is executing its
\* handler (and so the only one that can call adapters or write the store)
\* holds opMu, hence no two requests are inside their handlers at once.
C2_Serialized ==
  /\ \A p \in Procs : InWorkflow(p) => opMu = p
  /\ \A p, q \in Procs : (p # q /\ InWorkflow(p)) => ~InWorkflow(q)

\* one request is between two adapter calls of Stop while another waits for
\* the lock with a Backup
C2_Witness ==
  \E p, q \in Procs :
    /\ p # q
    /\ op[p].name = "Stop" /\ pc[p] = "stop_backup" /\ Len(trace) = 1
    /\ op[q].name = "Backup" /\ pc[q] = "lock"

\* C3: in Start with a different active game P, every call on the target
\* adapter comes after P.Stop, P.Backup and (exactly when a source is
\* remembered for P) P.SyncToSource have all succeeded, in that order.
C3_RetireBeforeTarget ==
  (call.name = "Start" /\ call.game \in Games
     /\ snap.ActiveGame # NoGame /\ snap.ActiveGame # Type(call.game)) =>
    LET P == snap.ActiveGame
        src == Lookup(snap.SourceByGame, P)
        n == IF src # EmptyStr THEN 3 ELSE 2
        t == trace
    IN /\ \A i \in CallsOn(t, call.game) :
            /\ i > n
            /\ t[1] = Call(P, "Stop", TRUE, EmptyStr)
            /\ t[2].ad = P /\ t[2].m = "Backup" /\ t[2].ok
            /\ src # EmptyStr => t[3] = Call(P, "SyncToSource", TRUE, src)
       /\ src = EmptyStr => CallsOf(t, "SyncToSource") = {}

\* a Start that stopped, backed up and synced minecraft before seeding hytale
C3_Witness ==
  /\ call.name = "Start" /\ call.game = GameHytale
  /\ snap.ActiveGame = GameMinecraft
  /\ Len(trace) >= 4
  /\ trace[3].m = "SyncToSource"
  /\ trace[4].ad = GameHytale

\* a returned Start with a blank locator, no cached backup for the target,
\* and a target that lacks LatestBackup or whose LatestBackup gave nothing
C4_Case ==
  /\ Returned /\ call.name = "Start" /\ call.game \in Games
  /\ TrimSpace(call.dataURL) = EmptyStr
  /\ TrimSpace(Lookup(snap.LastBackups, call.game)) = EmptyStr
  /\ \/ call.game \notin Providers
     \/ \E i \in CallsOf(trace, "LatestBackup") :
          ~trace[i].ok \/ TrimSpace(trace[i].val) = EmptyStr

\* C4 as stated: such a Start returns ErrNoBackupForGame and calls neither
\* Restore nor Start on the target adapter.
C4_Original ==
  C4_Case =>
    /\ result = Err(ErrNoBackupForGame)
    /\ NoRestoreNoStart(trace, call.game)

\* C4 amended: such a Start always fails and calls neither Restore nor Start
\* on the target adapter; it returns ErrNoBackupForGame unless retiring a
\* different active game failed first, in which case it returns that failure.
C4_NoBackup ==
  C4_Case =>
    /\ NoRestoreNoStart(trace, call.game)
    /\ result.kind # "ok"
    /\ OthersOk(trace, call.game) => result = Err(ErrNoBackupForGame)
    /\ ~OthersOk(trace, call.game) =>
         /\ ~LastCall(trace).ok
         /\ result = AdErr(LastCall(trace).ad, LastCall(trace).m)

\* Start(minecraft) retired hytale, found no cached backup, asked the adapter
\* for its latest backup, got none and returned ErrNoBackupForGame
C4_Witness ==
  /\ C4_Case /\ call.game = GameMinecraft
  /\ snap.ActiveGame = GameHytale
  /\ Len(trace) = 3
  /\ trace[3] = Call(GameMinecraft, "LatestBackup", FALSE, NoSuchMarker)
  /\ result = Err(ErrNoBackupForGame)

\* C5: Stop with no active game returns ErrNoActiveGame at once: no adapter
\* call is made and neither the stored record nor any adapter changes.
C5_StopNoActive ==
  [][\A p \in Procs :
       (pc[p] = "entry" /\ op[p].name = "Stop" /\ store.ActiveGame = NoGame
          /\ pc'[p] # "entry") =>
         /\ pc'[p] = "idle"
         /\ result' = Err(ErrNoActiveGame)
         /\ trace' = <<>>
         /\ store' = store
         /\ adapters' = adapters]_vars

\* a Stop returned ErrNoActiveGame after an earlier Stop had cleared the
\* active game
C5_Witness ==
  /\ Returned /\ call.name = "Stop"
  /\ result = Err(ErrNoActiveGame)
  /\ trace = <<>>
  /\ store.ActiveGame = NoGame /\ store.UpdatedAt >= 2

\* C6: Switch to the game that is already active returns success without any
\* state-store write (updated_at included) and without any adapter call,
\* whatever the phase.
C6_SwitchToActive ==
  [][\A p \in Procs :
       (pc[p] = "entry" /\ op[p].name = "Switch" /\ op[p].game \in Games
          /\ store.ActiveGame = Type(op[p].game) /\ pc'[p] # "entry") =>
         /\ pc'[p] = "idle"
         /\ result' = Ok
         /\ trace' = <<>>
         /\ store' = store
         /\ adapters' = adapters]_vars

\* a Switch to the active game returned success while the phase was error
C6_Witness ==
  /\ Returned /\ call.name = "Switch" /\ result = Ok
  /\ trace = <<>>
  /\ store.ActiveGame = Type(call.game)
  /\ store.Phase = "error"
  /\ store = snap

\* C7: a Switch to a registered, non-active target in which a step fails
\* returns the failing adapter call's error and leaves phase = error with
\* active game, last_backups and source_by_game as they were before.
C7_SwitchFailure ==
  [][\A p \in Procs :
       (Returns(p) /\ op[p].name = "Switch" /\ pc[p] # "entry"
          /\ result'.kind # "ok") =>
         /\ trace' # <<>>
         /\ ~LastCall(trace').ok
         /\ result' = AdErr(LastCall(trace').ad, LastCall(trace').m)
         /\ store'.Phase = "error"
         /\ store'.ActiveGame = snap.ActiveGame
         /\ store'.LastBackups = snap.LastBackups
         /\ store'.SourceByGame = snap.SourceByGame]_vars

\* a Switch from hytale to minecraft failed in minecraft's Start after the
\* outgoing Stop and Backup; the record is in phase error, still on hytale
C7_Witness ==
  /\ Returned /\ call.name = "Switch"
  /\ result = AdErr(GameMinecraft, "Start")
  /\ Len(trace) = 3
  /\ store.Phase = "error" /\ store.ActiveGame = GameHytale
  /\ store.LastBackups = snap.LastBackups

\* C8: a successful Switch from active game A to another target stores
\* active = target, phase = running and last_backups[A] = the reference A's
\* Backup returned in this Switch; the stored phase is already "switching"
\* when the Switch makes its first adapter call.
C8_SwitchSuccess ==
  [][\A p \in Procs :
       /\ (Returns(p) /\ op[p].name = "Switch" /\ pc[p] # "entry"
             /\ result'.kind = "ok" /\ snap.ActiveGame # NoGame) =>
            LET A == snap.ActiveGame
                t == trace'
            IN /\ store'.ActiveGame = Type(op[p].game)
               /\ store'.Phase = "running"
               /\ Len(t) >= 2
               /\ t[2].ad = A /\ t[2].m = "Backup" /\ t[2].ok
               /\ Lookup(store'.LastBackups, A) = t[2].val
       /\ (op[p].name = "Switch" /\ InWorkflow(p) /\ trace = <<>> /\ trace' # <<>>) =>
            store.Phase = "switching"]_vars

\* a Switch away from minecraft succeeded and replaced minecraft's earlier
\* backup reference by the one taken in this Switch
C8_Witness ==
  /\ Returned /\ call.name = "Switch" /\ result = Ok
  /\ snap.ActiveGame = GameMinecraft /\ call.game = GameHytale
  /\ Len(trace) = 3
  /\ store.ActiveGame = GameHytale /\ store.Phase = "running"
  /\ Lookup(store.LastBackups, GameMinecraft) = trace[2].val
  /\ Lookup(snap.LastBackups, GameMinecraft) # trace[2].val

C10_Post(p, src) ==
  LET target == op[p].game
      P == snap.ActiveGame
      t == trace'
  IN /\ store'.ActiveGame = Type(target)
     /\ store'.Phase = "running"
     /\ TrimSpace(op[p].dataURL) # EmptyStr =>
          Lookup(store'.SourceByGame, target) = src
     /\ (P # NoGame /\ P # Type(target)) =>
          /\ Len(t) >= 2
          /\ t[2].ad = P /\ t[2].m = "Backup" /\ t[2].ok
          /\ Lookup(store'.LastBackups, P) = t[2].val

\* C10 as stated: after a successful Start with a non-blank locator,
\* source_by_game[target] is the locator that was passed.
C10_Original ==
  [][\A p \in Procs :
       (Returns(p) /\ op[p].name = "Start" /\ result'.kind = "ok") =>
         C10_Post(p, op[p].dataURL)]_vars

\* C10 amended: after a successful Start the record has active = target and
\* phase = running, source_by_game[target] is the locator with surrounding
\* white space trimmed when the locator is non-blank, and last_backups[P] is
\* the reference returned by the Backup of a retired game P.
C10_StartSuccess ==
  [][\A p \in Procs :
       (Returns(p) /\ op[p].name = "Start" /\ result'.kind = "ok") =>
         C10_Post(p, TrimSpace(op[p].dataURL))]_vars

\* a Start of hytale with locator " u" retired minecraft and succeeded
C10_Witness ==
  /\ Returned /\ call.name = "Start" /\ result = Ok
  /\ call.game = GameHytale /\ call.dataURL = <<" ", "u">>
  /\ snap.ActiveGame = GameMinecraft
  /\ store.ActiveGame = GameHytale /\ store.Phase = "running"
  /\ Lookup(store.SourceByGame, GameHytale) = <<"u">>
  /\ Lookup(store.LastBackups, GameMinecraft) = trace[2].val

\* the calls of a Start on its target that prepare the data, and that start it
PrepCalls(t, g) == {i \in CallsOn(t, g) : t[i].m \in {"SeedFromSource", "Restore"}}
StartCalls(t, g) == {i \in CallsOn(t, g) : t[i].m = "Start"}

\* the adapter calls of a Start prepare the target once and before its Start;
\* src is the argument expected in SeedFromSource
C11_Prepared(src) ==
  (call.name = "Start" /\ call.game \in Games) =>
    LET T == call.game
        t == trace
        blank == TrimSpace(call.dataURL) = EmptyStr
        cached == Lookup(snap.LastBackups, T)
    IN /\ Cardinality(PrepCalls(t, T)) <= 1
       /\ Cardinality(StartCalls(t, T)) <= 1
       /\ \A s \in StartCalls(t, T) : \E i \in PrepCalls(t, T) : i < s /\ t[i].ok
       /\ \A i \in PrepCalls(t, T) :
            IF ~blank
            THEN /\ t[i].m = "SeedFromSource" /\ t[i].val = src
                 /\ CallsOf(t, "LatestBackup") = {}
            ELSE /\ t[i].m = "Restore"
                 /\ IF TrimSpace(cached) # EmptyStr
                    THEN t[i].val = cached /\ CallsOf(t, "LatestBackup") = {}
                    ELSE i > 1 /\ t[i - 1] = Call(T, "LatestBackup", TRUE, t[i].val)
       /\ (Returned /\ result = Ok) =>
            /\ StartCalls(t, T) # {}
            /\ blank => \E i \in PrepCalls(t, T) :
                          Lookup(store.LastBackups, T) = t[i].val

\* C11 as stated: with a non-blank locator Start calls SeedFromSource with
\* the locator it was given.
C11_Original == C11_Prepared(call.dataURL)

\* C11 amended: Start prepares the target exactly once and before
\* target.Start, which is not called when the preparation fails: with a
\* non-blank locator by SeedFromSource of the trimmed locator and never
\* Restore; with a blank locator by Restore of last_backups[target] when that
\* is non-blank and otherwise of the result of LatestBackup, which a
\* successful Start leaves in last_backups[target]; never SeedFromSource.
C11_PrepareOnce == C11_Prepared(TrimSpace(call.dataURL))

\* a Start of minecraft without locator and without cached backup restored
\* the reference LatestBackup found and then started minecraft
C11_Witness ==
  /\ Returned /\ call.name = "Start" /\ result = Ok
  /\ call.game = GameMinecraft /\ TrimSpace(call.dataURL) = EmptyStr
  /\ ~HasKey(snap.LastBackups, GameMinecraft)
  /\ trace = << Call(GameMinecraft, "LatestBackup", TRUE, <<"m">>),
                Call(GameMinecraft, "Restore", TRUE, <<"m">>),
                Call(GameMinecraft, "Start", TRUE, EmptyStr) >>
  /\ Lookup(store.LastBackups, GameMinecraft) = <<"m">>

\* C12: a successful Stop on active game W calls, on W's adapter only and in
\* this order, Stop, Backup and, exactly when a source is remembered for W,
\* SyncToSource with that source; it stores active = none, phase = stopped and
\* last_backups[W] = the reference that Backup returned, and reports
\* synced = true exactly when SyncToSource was called.
C12_StopSuccess ==
  [][\A p \in Procs :
       (Returns(p) /\ op[p].name = "Stop" /\ result'.kind = "ok") =>
         LET W == snap.ActiveGame
             src == Lookup(snap.SourceByGame, W)
             t == trace'
         IN /\ W # NoGame
            /\ Len(t) = IF src # EmptyStr THEN 3 ELSE 2
            /\ \A i \in 1..Len(t) : t[i].ad = W /\ t[i].ok
            /\ t[1].m = "Stop" /\ t[2].m = "Backup"
            /\ src # EmptyStr => t[3] = Call(W, "SyncToSource", TRUE, src)
            /\ store'.ActiveGame = NoGame
            /\ store'.Phase = "stopped"
            /\ Lookup(store'.LastBackups, W) = t[2].val
            /\ store'.SourceByGame = snap.SourceByGame
            /\ result'.val = t[2].val
            /\ result'.synced <=> (CallsOf(t, "SyncToSource") # {})]_vars

\* a Stop of minecraft, started from source "u", stopped it, backed it up,
\* synced it back to "u" and reported synced = true
C12_Witness ==
  /\ Returned /\ call.name = "Stop" /\ result.kind = "ok" /\ result.synced
  /\ snap.ActiveGame = GameMinecraft
  /\ Len(trace) = 3
  /\ trace[3] = Call(GameMinecraft, "SyncToSource", TRUE, <<"u">>)
  /\ store.ActiveGame = NoGame /\ store.Phase = "stopped"
  /\ Lookup(store.LastBackups, GameMinecraft) = trace[2].val

\* C13: Backup and Command return ErrNoActiveGame without any adapter call
\* when no game is active; otherwise they make exactly one call, Backup
\* respectively SendCommand, on the active game's adapter and return its
\* outcome; in no case do they write the store.
C13_Delegation ==
  [][\A p \in Procs :
       (op[p].name \in {"Backup", "Command"} /\ InWorkflow(p)) =>
         /\ store' = store
         /\ (pc[p] = "entry" /\ store.ActiveGame = NoGame /\ pc'[p] # "entry") =>
              /\ pc'[p] = "idle"
              /\ result' = Err(ErrNoActiveGame)
              /\ trace' = <<>>
              /\ adapters' = adapters
         /\ (Returns(p) /\ snap'.ActiveGame # NoGame) =>
              LET t == trace'
                  m == IF op[p].name = "Backup" THEN "Backup" ELSE "SendCommand"
              IN /\ Len(t) = 1
                 /\ t[1].ad = snap'.ActiveGame /\ t[1].m = m
                 /\ result' = IF t[1].ok THEN OkVal(t[1].val)
                                         ELSE AdErr(t[1].ad, m)]_vars

\* a Backup on the active minecraft failed and the stored record is what it
\* was when the Backup read it
C13_Witness ==
  /\ Returned /\ call.name = "Backup"
  /\ result = AdErr(GameMinecraft, "Backup")
  /\ trace = << Call(GameMinecraft, "Backup", FALSE, EmptyStr) >>
  /\ store = snap /\ store.ActiveGame = GameMinecraft /\ store.Phase = "running"

\* the State a Status result reports
StatusRecord(o) ==
  [ActiveGame |-> o.active_game, Phase |-> o.phase, LastBackups |-> o.last_backups,
   SourceByGame |-> o.source_by_game, UpdatedAt |-> o.updated_at]
\* this step is p's own step into or out of its adapter Status call
StatusStep(p) == pc[p] # pc'[p] /\ "status_ad" \in {pc[p], pc'[p]}

\* C14: Status never touches opMu, and the record it reports is the whole
\* stored record of one instant: what it reads is the store's content at its
\* single Get (the initial record or the full value of the latest Set), that
\* copy is not changed by writes that happen while Status calls the adapter,
\* and the result is built from that copy alone.
C14_StatusSnapshot ==
  [][/\ \A p \in Procs :
          /\ StatusStep(p) => opMu' = opMu
          /\ (pc[p] = "idle" /\ pc'[p] = "status_ad") => st'[p] = store
          /\ (pc[p] = "status_ad" /\ pc'[p] = "status_ad") => st'[p] = st[p]
     /\ status' # status =>
          /\ status'.returned
          /\ opMu' = opMu
          /\ \/ \E p \in Procs : /\ pc[p] = "status_ad" /\ pc'[p] = "idle"
                                /\ StatusRecord(status') = st[p]
             \/ /\ \A p \in Procs : pc'[p] = pc[p]
                /\ StatusRecord(status') = store]_vars

\* a Status read phase = switching and returned while the Switch that wrote
\* it was still between its adapter calls, holding the lock
C14_Witness ==
  /\ status.returned /\ status.phase = "switching"
  /\ status.adapter_call = "ok"
  /\ \E q \in Procs :
       /\ opMu = q /\ op[q].name = "Switch" /\ pc[q] = "switch_backup"
  /\ store.Phase = "switching"
  /\ status.updated_at = store.UpdatedAt

\* C15: Status always returns a nil error and changes neither the store nor
\* the adapters; its result always carries the record it read, and lacks the
\* live adapter status exactly when no adapter Status call succeeded (no
\* active game, no adapter for it, or the adapter's Status failed).
C15_StatusBestEffort ==
  [][/\ \A p \in Procs : StatusStep(p) => (store' = store /\ adapters' = adapters)
     /\ status' # status =>
          /\ store' = store /\ adapters' = adapters
          /\ status'.returned /\ ~status'.err
          /\ \E p \in Procs :
               StatusRecord(status') = IF pc[p] = "status_ad" /\ pc'[p] = "idle"
                                       THEN st[p] ELSE store
          /\ status'.game_status.present <=> status'.adapter_call = "ok"
          /\ status'.adapter_call = "none" <=> status'.active_game = NoGame
          /\ status'.game_status.present =>
               status'.game_status = AdapterStatus(adapters, status'.active_game)]_vars

\* a Status whose adapter call failed returned the persisted record of the
\* running minecraft without a live status
C15_Witness ==
  /\ status.returned /\ ~status.err
  /\ status.adapter_call = "failed"
  /\ ~status.game_status.present
  /\ status.active_game = GameMinecraft /\ status.phase = "running"
  /\ StatusRecord(status) = store
  /\ store.UpdatedAt >= 1

\* C16: given that adapter calls return, every request waiting in Lock()
\* eventually holds opMu, every holder eventually releases it, and every
\* return of a handler (success, validation error, adapter error) leaves
\* opMu free: no set of concurrent calls deadlocks or starves.
C16_LockLiveness ==
  /\ \A p \in Procs : (pc[p] = "lock") ~> (opMu = p)
  /\ \A p \in Procs : (opMu = p) ~> (opMu = 0)
  /\ [][\A p \in Procs : (opMu = p /\ pc'[p] = "idle") => opMu' = 0]_vars

\* a Stop that had waited in Lock() while a Start held opMu has taken the
\* lock after that Start returned, and is now retiring the game it started
C16_Witness ==
  \E p \in Procs :
    /\ opMu = p /\ op[p].name = "Stop" /\ pc[p] = "stop_backup"
    /\ ops = 2
    /\ store.Phase = "running" /\ store.UpdatedAt = 1
    /\ \A q \in Procs \ {p} : pc[q] = "idle"

\* C17: Start and Switch with a target that is not a key of the adapter
\* registry return ErrUnknownGameType at once, calling no adapter and writing
\* nothing, whatever the active game and the phase.
C17_UnknownTarget ==
  [][\A p \in Procs :
       (pc[p] = "entry" /\ op[p].name \in {"Start", "Switch"}
          /\ op[p].game \notin Games /\ pc'[p] # "entry") =>
         /\ pc'[p] = "idle"
         /\ result' = Err(ErrUnknownGameType)
         /\ trace' = <<>>
         /\ store' = store
         /\ adapters' = adapters
         /\ opMu' = 0]_vars

\* a Switch to an unregistered name returned ErrUnknownGameType while
\* minecraft was active in phase error, and left the record as it was
C17_Witness ==
  /\ Returned /\ call.name = "Switch" /\ call.game = UnknownGame
  /\ result = Err(ErrUnknownGameType)
  /\ trace = <<>>
  /\ store = snap
  /\ store.ActiveGame = GameMinecraft /\ store.Phase = "error"
  /\ adapters[GameMinecraft].running

\* WaitServiceStable has returned
WaitDone == wpc = "done"
\* this step is the return of a DescribeService call
DescribeReturns == wpc = "describe" /\ wpc' # "describe"

\* C18: WaitServiceStable returns success exactly when a describe call it
\* issued reported a stable service, and then at once; otherwise it returns
\* an error; the first describe call is issued immediately and every later
\* one takes a tick of the 5 s ticker; and the call always returns.
C18_WaitStable ==
  /\ [](WaitDone => (wres = WaitOk <=> stableSeen))
  /\ [](WaitDone => wres.kind \in {"ok", "validation", "describe", "wait"})
  /\ [](stableSeen => WaitDone)
  /\ [][/\ (wpc = "idle" /\ wpc' = "describe") => (now' = 0 /\ tick' = 0)
        /\ (wpc = "select" /\ wpc' = "describe") =>
             (tick = 1 /\ tick' = 0 /\ now >= defaultWaitPoll)
        /\ (tick' = 1 /\ tick = 0) =>
             (now' > now /\ now' % defaultWaitPoll = 0)
        /\ (DescribeReturns /\ last'.err = "" /\ isStable(last'.state)) =>
             wres' = WaitOk]_vars
  /\ <>WaitDone

\* the third describe call, ten seconds into a wait with the default
\* timeout, found the service stable and the wait returned success
C18_Witness ==
  /\ WaitDone /\ wres = WaitOk
  /\ stableSeen /\ isStable(last.state)
  /\ now = 2 * defaultWaitPoll
  /\ deadline = defaultTimeout

\* C19: when a describe call fails, WaitServiceStable returns that error in
\* the same step, without waiting for a tick or the deadline, and issues no
\* further describe call.
C19_DescribeFailure ==
  [][/\ (DescribeReturns /\ last'.err # "") =>
          /\ wpc' = "done"
          /\ wres' = WaitDescribeErr(last'.err)
          /\ now' = now /\ tick' = tick
     /\ WaitDone => (wpc' = "done" /\ last' = last /\ wres' = wres)]_vars

\* the second describe call, five seconds into a ten-minute wait, reported
\* that the service was not found and the wait returned that error then
C19_Witness ==
  /\ WaitDone /\ wres = WaitDescribeErr("notfound")
  /\ last = DescribeFailed("notfound")
  /\ now = defaultWaitPoll /\ deadline = defaultTimeout
  /\ ctxErr = "none"

\* C20: when WaitServiceStable ends because its deadline elapsed without a
\* stable poll, the error it returns is the "wait for ecs service stable"
\* timeout error, never an error of a describe call.
C20_TimeoutKind ==
  (WaitDone /\ ~stableSeen /\ wres.cause = "deadline") => wres.kind = "wait"

\* C21: once the caller's context is cancelled, WaitServiceStable does not go
\* back to waiting: a describe call in flight returns the context's error
\* and the select, when it wakes, returns or issues one describe call that
\* fails; the call returns an error that carries the cancellation, never
\* success, and it does return.
C21_Cancellation ==
  /\ [][ctxErr = "canceled" =>
          /\ (wpc = "describe" /\ wpc' # wpc) =>
                (wpc' = "done" /\ wres' = WaitDescribeErr("canceled"))
          /\ (wpc = "select" /\ wpc' # wpc) =>
                \/ wpc' = "done" /\ wres' = WaitTimeoutErr("canceled")
                \/ wpc' = "describe" /\ tick = 1 /\ tick' = 0
          /\ wres' # WaitOk]_vars
  /\ (ctxErr = "canceled") ~> (WaitDone /\ wres.cause = "canceled")

\* a ten-minute wait was cancelled after its second unstable poll, five
\* seconds in, and returned the cancellation from its select
C21_Witness ==
  /\ WaitDone /\ wres = WaitTimeoutErr("canceled")
  /\ ctxErr = "canceled" /\ ~stableSeen
  /\ last.err = "" /\ ~isStable(last.state)
  /\ now = defaultWaitPoll /\ deadline = defaultTimeout

\* the conditions on the counters and the deployment list, and on the status
C22_Counts(s) ==
  /\ ~EqualFold(TrimSpace(s.Status), DRAINING)
  /\ s.PendingCount = 0
  /\ s.RunningCount = s.DesiredCount
  /\ Len(s.Deployments) = 1
  /\ s.Deployments[1].PendingCount = 0
  /\ s.Deployments[1].RunningCount = s.Deployments[1].DesiredCount
  /\ s.Deployments[1].DesiredCount = s.DesiredCount

\* C22 as stated: a described service is stable, and the wait succeeds on
\* it, exactly when the status is not DRAINING (trimmed, any case), the
\* counters agree, there is one deployment, and its rollout state is the
\* empty string or COMPLETED in any case.
C22_Original ==
  last.err = "" =>
    LET s == last.state
        stated == /\ C22_Counts(s)
                  /\ \/ s.Deployments[1].RolloutState = EmptyStr
                     \/ EqualFold(s.Deployments[1].RolloutState, COMPLETED)
    IN (isStable(s) <=> stated) /\ (wres = WaitOk <=> stated)

\* C22: a described service is stable, and the wait succeeds on it, exactly
\* when the status is not DRAINING (trimmed, any case), the counters agree,
\* there is one deployment, and its rollout state, trimmed of white space,
\* is empty or COMPLETED in any case; no deployment or several deployments
\* are never stable.
C22_IsStable ==
  last.err = "" =>
    LET s == last.state
        stated == /\ C22_Counts(s)
                  /\ \/ TrimSpace(s.Deployments[1].RolloutState) = EmptyStr
                     \/ EqualFold(TrimSpace(s.Deployments[1].RolloutState), COMPLETED)
    IN /\ isStable(s) <=> stated
       /\ wres = WaitOk <=> stated
       /\ Len(s.Deployments) # 1 => ~isStable(s)

\* the wait succeeded on a service whose only deployment reports the rollout
\* state " Completed "
C22_Witness ==
  /\ WaitDone /\ wres = WaitOk
  /\ last = Described(ServiceState(ACTIVE, 1, 1, 0,
        << Deployment(<<" ", "C", "o", "m", "p", "l", "e", "t", "e", "d", " ">>, 1, 1, 0) >>))

\* the adapter method called last has returned
AReturned == apc = "idle" /\ acall.name # "none"
\* the errors Restore returns before the download has succeeded
RestoreEarlyErrors ==
  { "s3 backup not configured", "empty backup key", "empty backup ref",
    "invalid s3 backup ref", "default bucket is empty", "create temp file",
    "aws client", "download backup from s3" }
\* the reserved entry at the top of the data directory and what is below it
Reserved(f) ==
  [q \in {x \in DOMAIN f : IsPrefix(Append(DataDir, GitName), x)} |-> f[q]]

\* C23: Restore changes nothing in the file system until the download has
\* succeeded: while it checks, prepares and downloads, and after it returned
\* for a missing configuration, an empty or malformed reference or a failed
\* download, the data directory holds what it held at the call; and the
\* clear, when it runs, leaves the top-level .git entry as it was.
C23_RestoreOrder ==
  /\ [](acall.name = "Restore" =>
          /\ apc \in {"r_temp", "r_download", "r_reset"} => fs = pre
          /\ (AReturned /\ ares.err \in RestoreEarlyErrors) => fs = pre
          /\ fs # pre => /\ net # <<>>
                         /\ net[Len(net)].method = "get"
                         /\ net[Len(net)].address \in DOMAIN s3)
  /\ [][(acall.name = "Restore" /\ apc = "r_reset") =>
          /\ Reserved(fs') = Reserved(fs)
          /\ apc' = "r_unzip" =>
                \A q \in DOMAIN fs' :
                  IsPrefix(DataDir, q) => (q = DataDir \/ IsPrefix(Append(DataDir, GitName), q))]_vars

\* a Restore whose download failed has returned, and the data directory
\* still holds the files and the .git directory the server left
C23_Witness ==
  /\ AReturned /\ acall.name = "Restore"
  /\ ares.err = "download backup from s3" /\ net # <<>>
  /\ Exists(fs, DataDir \o <<GitName, "HEAD">>) /\ Exists(fs, Append(DataDir, "d"))
  /\ fs = pre

\* an entry name whose cleaned form is absolute or climbs out of the
\* directory it is joined to
Escapes(name) ==
  IsAbs(Clean(name)) \/ (Clean(name) # <<>> /\ Head(Clean(name)) = "..")
\* the object the reference of the Restore called last resolves to
RestoredObject ==
  s3[Address(parseBackupRef(cfg.bucket, acall.arg).bucket,
             parseBackupRef(cfg.bucket, acall.arg).key)]

\* C24: nothing outside the data directory is ever created or changed; the
\* step of the extraction that meets an entry whose cleaned name is absolute
\* or climbs out of the destination writes nothing and ends Restore with an
\* error, so that entry and the entries after it are never written; and a
\* Restore that succeeded read an archive without such an entry.
C24_NoEscape ==
  /\ [](Outside(fs, DataDir) = Outside(InitialFs, DataDir))
  /\ [][(apc = "r_unzip" /\ tmp.zip.complete /\ tmp.zi <= Len(tmp.zip.entries)
           /\ Escapes(tmp.zip.entries[tmp.zi].Name)) =>
          (fs' = fs /\ apc' = "idle" /\ ~ares'.ok /\ ares'.err = "invalid path")]_vars
  /\ []((AReturned /\ acall.name = "Restore" /\ ares.ok) =>
          \A i \in 1..Len(RestoredObject.entries) : ~Escapes(RestoredObject.entries[i].Name))

\* Restore of the archive whose second entry is ../../etc/passwd has failed:
\* the first entry was extracted, the third was not, and /etc/passwd is as
\* it was
C24_Witness ==
  /\ AReturned /\ acall = [name |-> "Restore", arg |-> <<"x1">>]
  /\ ares = AErr("invalid path")
  /\ Exists(fs, Append(DataDir, "a")) /\ ~Exists(fs, Append(DataDir, "b"))
  /\ fs[<<"etc", "passwd">>] = "x"

\* C25: a Restore that fails on an entry whose name climbs out of the
\* destination leaves the data directory as it was when Restore was called.
C25_NoSideEffect ==
  (AReturned /\ acall.name = "Restore" /\ ares = AErr("invalid path")) => fs = pre

\* C26: Backup sends its upload only for an archive that was built in full,
\* and a Backup whose build fails has sent no request to the store.
C26_BuiltBeforeUpload ==
  /\ (apc \in {"b_upload", "b_marker"}) => tmp.zip.complete
  /\ (AReturned /\ acall.name = "Backup" /\ ares = AErr("walk source dir for zip"))
       => net = <<>>

\* C27: once the snapshot is uploaded, Backup succeeds with the snapshot's
\* reference whether or not the write of the latest marker succeeds.
C27_MarkerBestEffort ==
  [][(apc = "b_marker") =>
       (apc' = "idle" /\ ares' = AOk(Uri(tmp.bucket, tmp.key)))]_vars

\* the failures of Restore that the environment brings about
RestoreEnvErrors ==
  {"create temp file", "aws client", "download backup from s3", "reset directory"}

\* C28: a Restore with the reference the latest Backup returned, of an
\* archive written in full and unless the environment fails it, succeeds and leaves in the data directory exactly
\* the paths and file contents the directory had at the Backup, whatever it
\* held just before the Restore.
C28_RoundTrip ==
  (/\ AReturned /\ acall.name = "Restore"
   /\ saved.ref # <<>> /\ acall.arg = saved.ref
   /\ ares.err \notin RestoreEnvErrors
   /\ RestoredObject.complete)
    => (ares.ok /\ Plain(Tree(fs, DataDir)) = Plain(saved.tree))

\* a reference of the form s3://<bucket>/<key> with bucket and key not blank
IsS3Ref(ref) ==
  /\ ref # <<>> /\ Head(ref) = S3Scheme
  /\ Len(SplitN2(Tail(ref), Sep)) = 2
  /\ TrimSpace(SplitN2(Tail(ref), Sep)[1]) # <<>>
  /\ TrimSpace(SplitN2(Tail(ref), Sep)[2]) # <<>>
\* a reference that is to be rejected: empty or blank, with the scheme and without
\* bucket or key, or a bare key when there is no default bucket
RefRejected(defaultBucket, ref) ==
  \/ TrimSpace(ref) = <<>>
  \/ Head(ref) = S3Scheme /\ ~IsS3Ref(ref)
  \/ Head(ref) # S3Scheme /\ defaultBucket = <<>>
\* what a reference is to resolve to
RefResolution(defaultBucket, ref) ==
  IF RefRejected(defaultBucket, ref) THEN <<>>
  ELSE IF IsS3Ref(ref)
  THEN <<SplitN2(Tail(ref), Sep)[1], SplitN2(Tail(ref), Sep)[2]>>
  ELSE <<defaultBucket, ref>>
\* parseBackupRef gives what the reference is to resolve to
ResolvesAs(defaultBucket, backupRef, ref) ==
  LET r == parseBackupRef(defaultBucket, backupRef) IN
  IF RefRejected(defaultBucket, ref) THEN r.err # ""
  ELSE r.err = "" /\ <<r.bucket, r.key>> = RefResolution(defaultBucket, ref)

\* C29 as stated: the reference passed to Restore resolves as it is written,
\* a bare reference to the default bucket and the reference itself.
C29_Original ==
  (acall.name = "Restore") => ResolvesAs(cfg.bucket, acall.arg, acall.arg)

\* C29: the reference passed to Restore, trimmed of the white space around
\* it, resolves to the pair of an s3://<bucket>/<key> reference or to the
\* default bucket and the trimmed reference; an empty reference, one with
\* the scheme and without bucket or key, and a bare key without a default
\* bucket are rejected, and Restore then fails having sent no request to
\* the store and changed no file.
C29_BackupRef ==
  (acall.name = "Restore") =>
    /\ ResolvesAs(cfg.bucket, acall.arg, TrimSpace(acall.arg))
    /\ (AReturned /\ RefRejected(cfg.bucket, TrimSpace(acall.arg)))
         => (~ares.ok /\ net = <<>> /\ fs = pre)
    /\ (net # <<>> /\ net[1].method = "get") =>
         /\ ~RefRejected(cfg.bucket, TrimSpace(acall.arg))
         /\ net[1].address =
              Address(RefResolution(cfg.bucket, TrimSpace(acall.arg))[1],
                      RefResolution(cfg.bucket, TrimSpace(acall.arg))[2])

\* a Restore of the bare reference " x2" has fetched the object x2 of the
\* default bucket
C29_Witness ==
  /\ AReturned /\ acall.name = "Restore" /\ acall.arg = <<" ", "x2">>
  /\ net # <<>> /\ net[1] = Request("get", Bucket, <<"x2">>)

\* the errors SeedFromSource returns up to and including the check that
\* the subpath exists
SeedEarlyErrors ==
  { "source url is required", "invalid repository url", "create temp seed dir",
    "git clone source", "source path not found in repo" }
\* a tree without its top-level .git entry and what is below it
Unreserved(t) == [r \in {x \in DOMAIN t : x[1] # GitName} |-> t[r]]
\* the directory of the clone that the locator of the call names
SeedSource ==
  LET src == parseSourceURL(acall.arg) IN
  Tree(Repos[<<src.repoURL, src.ref>>], Elems(src.path))

\* C30: SeedFromSource changes nothing in the file system while it checks
\* the locator, clones and looks for the subpath, nor when it returns for a
\* blank locator, an invalid repository URL, a failed scratch directory, a
\* failed clone or a missing subpath; when the clear runs the clone has
\* succeeded and the subpath exists; the copy writes nothing into the
\* top-level .git entry of the destination, and after a successful seed the
\* rest of the data directory is the source without its top-level .git.
C30_SeedFrame ==
  /\ [](acall.name = "SeedFromSource" =>
          /\ apc \in {"s_clone", "s_stat", "s_reset"} => fs = pre
          /\ (AReturned /\ ares.err \in SeedEarlyErrors) => fs = pre
          /\ (apc \in {"s_reset", "s_copy"} \/ fs # pre) =>
               /\ <<parseSourceURL(acall.arg).repoURL, parseSourceURL(acall.arg).ref>>
                    \in DOMAIN Repos
               /\ \/ parseSourceURL(acall.arg).path = <<>>
                  \/ Exists(Repos[<<parseSourceURL(acall.arg).repoURL,
                                      parseSourceURL(acall.arg).ref>>],
                            Elems(parseSourceURL(acall.arg).path))
          /\ (AReturned /\ ares.ok) =>
               /\ Reserved(fs) = Reserved(pre)
               /\ Plain(Unreserved(Tree(fs, DataDir))) = Plain(Unreserved(SeedSource)))
  /\ [][(acall.name = "SeedFromSource" /\ apc \in {"s_reset", "s_copy"}) =>
          Reserved(fs') = Reserved(fs)]_vars

\* a seed from the subdirectory p of the clone has succeeded on a data
\* directory that held other files: the directory now holds p's file f and
\* neither the .git of the clone nor the one in p
C30_Witness ==
  /\ AReturned /\ acall.name = "SeedFromSource" /\ ares.ok
  /\ acall.arg = <<"u", "#", "main", ":", Sep, "p">>
  /\ Tree(pre, DataDir) # EmptyTree
  /\ Tree(fs, DataDir) = (<<"f">> :> "x")

\* C31: what the store holds changes only by Set: whatever callers do to the
\* maps of a State they got from Get or passed to Set, the stored record is
\* the one written by the latest Set and every Get returns it; and Set
\* stores the store's clock as updated_at, whatever the caller had put there.
C31_IndependentCopies ==
  /\ [](Content(heap, mstate) = written)
  /\ [][(Len(heap') > Len(heap) /\ mstate' = mstate) =>
          \E c \in Callers : /\ held'[c] # held[c]
                              /\ Content(heap', held'[c]) = written]_vars
  /\ [][(mstate' # mstate) =>
          /\ mstate'.UpdatedAt = mclock'
          /\ \E c \in Callers :
               Content(heap', mstate') = [Content(heap, held[c]) EXCEPT !.UpdatedAt = mclock']]_vars

\* a caller has put its own time into a State it got from Get and passed it
\* to Set, and has since written an entry into that State's last_backups:
\* the stored record has the clock's time and not the entry
C31_Witness ==
  \E c \in Callers :
    /\ held[c].UpdatedAt = 9 /\ written.UpdatedAt = 1
    /\ held[c].LastBackups # NilMap
    /\ written.ActiveGame = held[c].ActiveGame /\ written.Phase = held[c].Phase
    /\ Deref(heap, held[c].LastBackups) # written.LastBackups

\* C32: a Start whose lookup of the latest backup failed for another reason
\* than a missing backup (store not configured, client, storage failure)
\* returns an error other than ErrNoBackupForGame.
C32_HardFailureDistinct ==
  (/\ Returned /\ call.name = "Start"
   /\ \E i \in CallsOf(trace, "LatestBackup") :
        ~trace[i].ok /\ trace[i].val # NoSuchMarker)
    => result # Err(ErrNoBackupForGame)

C34_SkipsLinks ==
  (apc = "b_zip") =>
    \E z \in ZipOutcomes(fs, DataDir) :
      /\ z.ok /\ z.zip.complete
      /\ \A r \in DOMAIN Tree(fs, DataDir) :
           LET v == fs[DataDir \o r]
               named(n) == \E i \in 1..Len(z.zip.entries) : z.zip.entries[i].Name = n
           IN IF IsDirValue(v) THEN named(JoinSlash(r) \o <<Sep>>)
              ELSE IF IsRegular(v) THEN named(JoinSlash(r))
              ELSE ~named(JoinSlash(r))

\* C35: whenever no mutating operation is in flight, a record that says
\* game W is running agrees with the adapters: W's adapter is started (its
\* last successful Start was not followed by a successful Stop).
C35_RecordAgrees ==
  (opMu = 0 /\ store.Phase = "running" /\ store.ActiveGame \in Games) =>
    adapters[store.ActiveGame].running

\* C36: a Start or Stop that returns an error has written nothing to the
\* store: when it returns, the stored record is the record of the time the
\* call began, also when the call had already stopped and backed up a game
\* (the reference of that backup is not recorded).
C36_FailedNoWrite ==
  [][\A p \in Procs :
       (Returns(p) /\ op[p].name \in {"Start", "Stop"} /\ result'.kind # "ok") =>
         /\ store' = snap
         /\ store = snap]_vars

\* a Start of hytale stopped and backed up minecraft, failed in minecraft's
\* SyncToSource, and the record has not got the reference of that backup
C36_Witness ==
  /\ Returned /\ call.name = "Start" /\ call.game = GameHytale
  /\ result = AdErr(GameMinecraft, "SyncToSource")
  /\ Len(trace) = 3 /\ trace[2].m = "Backup" /\ trace[2].ok
  /\ Lookup(store.LastBackups, GameMinecraft) # trace[2].val
  /\ store.ActiveGame = GameMinecraft /\ store.Phase = "running"

\* C37: Restore and SeedFromSource are called only on an adapter that is not
\* started: whenever Start is about to call one of them on the target's
\* adapter, that adapter is not running, also when the target is the game
\* that is already active.
C37_PrepareWhileStopped ==
  \A p \in Procs :
    pc[p] \in {"start_seed", "start_restore"} => ~adapters[op[p].game].running

\* C38: every record the store holds is coherent: its phase is one of
\* stopped, running, switching and error; phase running comes with an active
\* game, and phase stopped with none.
C38_Coherent ==
  /\ store.Phase \in {"stopped", "running", "switching", "error"}
  /\ store.Phase = "running" => store.ActiveGame # NoGame
  /\ store.Phase = "stopped" => store.ActiveGame = NoGame

\* a Stop took the record from phase error with an active game to stopped
C38_Witness ==
  /\ Returned /\ call.name = "Stop" /\ result.kind = "ok"
  /\ snap.Phase = "error" /\ snap.ActiveGame # NoGame
  /\ store.Phase = "stopped" /\ store.UpdatedAt = 4

\* C39: the marker object changes only in a Backup, and the value Backup
\* writes to it is a key that the same Backup call has put before and that
\* the store holds as an archive: the marker never names a key that was not
\* uploaded.
C39_MarkerNamesUploaded ==
  [][\A b \in {Bucket, OtherBucket} :
       LET m == Address(b, latestBackupKey) IN
       (m \in DOMAIN s3' /\ (m \notin DOMAIN s3 \/ s3'[m] # s3[m])) =>
         /\ acall.name = "Backup"
         /\ \E i \in 1..Len(net) :
              /\ net[i] = Request("put", b, s3'[m].text)
              /\ net[i].address \in DOMAIN s3
              /\ s3[net[i].address].text = <<>>
              /\ s3[net[i].address] = tmp.zip]_vars

\* a second Backup failed in its upload after a first one succeeded: the
\* marker still names the first snapshot, which the store holds
C39_Witness ==
  /\ AReturned /\ acall.name = "Backup" /\ ares = AErr("upload backup to s3")
  /\ Address(cfg.bucket, latestBackupKey) \in DOMAIN s3
  /\ s3[Address(cfg.bucket, latestBackupKey)] = Text(backupKeyAt(Timestamps[1]))
  /\ Address(cfg.bucket, backupKeyAt(Timestamps[1])) \in DOMAIN s3
  /\ Address(cfg.bucket, backupKeyAt(Timestamps[2])) \notin DOMAIN s3
  /\ net = <<Request("put", cfg.bucket, backupKeyAt(Timestamps[2]))>>

\* C40: phase switching is stored only while a Switch holds the lock:
\* whenever no mutating operation is in flight the stored phase is stopped,
\* running or error, and the step in which a Switch that stored switching
\* returns stores running or error.
C40_SwitchingTransient ==
  /\ [](opMu = 0 => store.Phase \in {"stopped", "running", "error"})
  /\ [](store.Phase = "switching" => opMu # 0 /\ op[opMu].name = "Switch")
  /\ [][\A p \in Procs :
          (Returns(p) /\ opMu = p /\ store.Phase = "switching") =>
            store'.Phase = IF result'.kind = "ok" THEN "running" ELSE "error"]_vars

\* a Switch that had stored switching failed and left phase error, while
\* the other request waits for the lock
C40_Witness ==
  /\ Returned /\ call.name = "Switch" /\ result.kind = "adapter"
  /\ opMu = 0 /\ store.Phase = "error" /\ store.UpdatedAt = 2
  /\ \E q \in Procs : pc[q] = "lock"

====
